---- MODULE Spec2Model ----
(***************************************************************************)
(* Model of the s-zip streaming ZIP writer (src/src/writer.rs,             *)
(* src/src/async_writer.rs), its reader (src/src/reader.rs,                *)
(* src/src/async_reader.rs), the AES unit (src/src/encryption.rs) and the  *)
(* seek interface of the cloud sinks (src/src/cloud/s3.rs, gcs.rs).        *)
(*                                                                         *)
(* The sink is modelled byte for byte: every header field is written with  *)
(* its real width in little-endian order, and the reader finds everything  *)
(* by seeking to byte offsets, exactly as the code does.                   *)
(*                                                                         *)
(* TLC integers are 32 bit, so the two limits of the ZIP format,           *)
(* u16::MAX and u32::MAX, are stood in for by the small numbers U16_MAX    *)
(* and U32_MAX.  Only the comparisons "> u16::MAX", "> u32::MAX" and the   *)
(* sentinel literals 0xFFFF / 0xFFFFFFFF use them; field widths stay 2, 4  *)
(* and 8 bytes.                                                            *)
(***************************************************************************)
EXTENDS Integers, Sequences, FiniteSets, TLC

\* ------------------------------------------------------------------ bounds
\* Number of start_entry calls explored on one writer.
MaxEntries == 3
\* Number of write_data calls explored on one writer.
MaxWrites == 2
\* encrypt calls on one encryptor
MaxEncryptCalls == 2
\* entries given to one call of compress_entries_parallel
MaxParEntries == 3
\* largest max_concurrent of a ParallelConfig
MaxPermits == 2
\* part_size of an S3ZipWriter and chunk_size of a GCSZipWriter, in bytes
PartSize == 2
\* poll_write and poll_shutdown calls on one cloud writer
MaxCloudCalls == 4
\* Stand-in for u16::MAX (limit of the classic entry-count field, 0xFFFF).
U16_MAX == 2
\* Stand-in for u32::MAX (limit of the classic size/offset fields, 0xFFFFFFFF).
U32_MAX == 160
\* Flush thresholds of the staging buffer are divided by this number, so that
\* a buffer of a few model bytes reaches them.
ThresholdScale == 131072

\* Option<T>: None is the empty sequence, Some(x) the one-element sequence.
None == <<>>

Some(x) == <<x>>

\* ------------------------------------------------------------ byte helpers
\* v.to_le_bytes() for an integer of n bytes; `as u16`/`as u32` casts keep the
\* low n bytes, which is what taking n little-endian digits does.  Values in
\* the model stay below 2^31, so the digits past the fourth are zero.
to_le_bytes(v, n) ==
    [i \in 1..n |-> IF i <= 4 THEN (v \div <<1, 256, 65536, 16777216>>[i]) % 256
                    ELSE 0]

RECURSIVE from_le_bytes(_)
\* u16/u32/u64::from_le_bytes
from_le_bytes(b) ==
    IF b = <<>> THEN 0 ELSE b[1] + 256 * from_le_bytes(Tail(b))

\* n copies of byte b.
Repeat(b, n) == [i \in 1..n |-> b]

RECURSIVE XorBits(_, _, _)
XorBits(a, b, n) ==
    IF n = 0 THEN 0
    ELSE (((a % 2) + (b % 2)) % 2) + 2 * XorBits(a \div 2, b \div 2, n - 1)

\* Bitwise exclusive or of two bytes.
Xor8(a, b) == XorBits(a, b, 8)

\* ZIP signatures as they appear on the wire.
LocalFileHeaderSig == <<80, 75, 3, 4>>
DataDescriptorSig == <<80, 75, 7, 8>>
CentralDirectorySig == <<80, 75, 1, 2>>
EocdSig == <<80, 75, 5, 6>>
Zip64EocdSig == <<80, 75, 6, 6>>
Zip64LocatorSig == <<80, 75, 6, 7>>

\* ------------------------------------------------------------------ CRC-32
\* crc32fast::Hasher keeps the number of bytes fed and the running state.
\* The checksum is modelled as a position-weighted sum that fits TLC's
\* integers: it depends on every byte and on the order of the bytes, and not
\* on how the bytes were split into update() calls.
RECURSIVE WeightedSum(_, _, _, _)
\* Sum of (data[i] + 1) * (amount + i) for i in lo..hi, halving the range.
WeightedSum(data, amount, lo, hi) ==
    IF lo > hi THEN 0
    ELSE IF lo = hi THEN ((data[lo] + 1) * (amount + lo)) % 65521
    ELSE (WeightedSum(data, amount, lo, (lo + hi) \div 2)
          + WeightedSum(data, amount, (lo + hi) \div 2 + 1, hi)) % 65521

\* Crc32::new
CrcNew == [amount |-> 0, state |-> 0]

\* Hasher::update
CrcUpdate(crc, data) ==
    [amount |-> crc.amount + Len(data),
     state |-> (crc.state + WeightedSum(data, crc.amount, 1, Len(data))) % 65521]

\* Hasher::finalize
CrcFinalize(crc) == crc.state

\* CRC of a whole byte string.
Crc32Of(data) == CrcFinalize(CrcUpdate(CrcNew, data))

\* ------------------------------------------------------------------ codecs
\* The codecs are external libraries.  They are modelled as streaming,
\* self-terminating, invertible encodings made of blocks, one block per
\* non-empty write: DEFLATE emits a run block <<1, n, b>> for n copies of one
\* byte and a literal block <<2, n>> \o bytes otherwise, so its output may be
\* shorter or longer than its input; Zstd emits <<n>> \o bytes.  The byte 3
\* ends a DEFLATE stream and the byte 255 a Zstd stream; a zero byte begins
\* no block of either.  Writes are shorter than 255 bytes, so n fits a byte.
DeflateEncode(s) ==
    IF s = <<>> THEN <<>>
    ELSE IF \A i \in 1..Len(s) : s[i] = s[1] THEN <<1, Len(s), s[1]>>
    ELSE <<2, Len(s)>> \o s

RECURSIVE DeflateDecode(_)
\* [ok, data]: decodes up to the terminator, ignores what follows it, and
\* fails when the stream is cut short or a block type is unknown.
DeflateDecode(s) ==
    IF s = <<>> THEN [ok |-> FALSE, data |-> <<>>]
    ELSE IF s[1] = 3 THEN [ok |-> TRUE, data |-> <<>>]
    ELSE IF s[1] = 1 /\ Len(s) >= 3
    THEN LET rest == DeflateDecode(SubSeq(s, 4, Len(s)))
         IN  [ok |-> rest.ok, data |-> Repeat(s[3], s[2]) \o rest.data]
    ELSE IF s[1] = 2 /\ Len(s) >= 2 /\ Len(s) >= 2 + s[2]
    THEN LET rest == DeflateDecode(SubSeq(s, 3 + s[2], Len(s)))
         IN  [ok |-> rest.ok, data |-> SubSeq(s, 3, 2 + s[2]) \o rest.data]
    ELSE [ok |-> FALSE, data |-> <<>>]

ZstdEncode(s) == IF s = <<>> THEN <<>> ELSE <<Len(s)>> \o s

RECURSIVE ZstdDecode(_)
ZstdDecode(s) ==
    IF s = <<>> THEN [ok |-> FALSE, data |-> <<>>]
    ELSE IF s[1] = 255 THEN [ok |-> TRUE, data |-> <<>>]
    ELSE IF s[1] = 0 \/ Len(s) < 1 + s[1] THEN [ok |-> FALSE, data |-> <<>>]
    ELSE LET rest == ZstdDecode(SubSeq(s, 2 + s[1], Len(s)))
         IN  [ok |-> rest.ok, data |-> SubSeq(s, 2, 1 + s[1]) \o rest.data]

\* CompressionMethod::to_zip_method
to_zip_method(m) ==
    CASE m = "Stored" -> 0
      [] m = "Deflate" -> 8
      [] m = "Zstd" -> 93

\* A CompressedBuffer::write that forgets what the buffer already held.
CompressedBufferWriteReplaces(buffer, buf) == buf

\* impl Write for CompressedBuffer: write extends the buffer by buf.
CompressedBufferWrite(buffer, buf) == buffer \o buf

\* encoder.write_all(data) followed by encoder.flush(): the bytes the encoder
\* appends to its CompressedBuffer.
EncoderWrite(zip_method, data) ==
    IF zip_method = 8 THEN DeflateEncode(data) ELSE ZstdEncode(data)

\* finish_compression(): the bytes the encoder appends when it is finished.
EncoderFinish(zip_method) == IF zip_method = 8 THEN <<3>> ELSE <<255>>

\* -------------------------------------------------------------- encryption
\* AesStrength::salt_size, key_size, derived_key_size, to_winzip_code
salt_size == 16
key_size == 32
derived_key_size == key_size * 2 + 2
to_winzip_code == 3

\* pbkdf2_hmac::<Sha1>(password, salt, 1000, out): a deterministic function
\* of password and salt that fills n bytes.
Pbkdf2(pw, salt, n) ==
    [i \in 1..n |-> (pw[((i - 1) % Len(pw)) + 1] * 3
                     + salt[((i - 1) % Len(salt)) + 1] * 5 + i * 7) % 256]

\* HmacSha1::new_from_slice(key), update(data), finalize(): a keyed running
\* hash with a 20-byte result.
HmacNew(key) == [key |-> key, acc |-> CrcNew]
HmacUpdate(h, data) == [h EXCEPT !.acc = CrcUpdate(@, data)]
HmacFinalize(h) == [i \in 1..20 |-> (CrcFinalize(h.acc) * 17 + h.key[i] * 3 + i) % 256]

\* generate_salt: the salts the OS random source is taken to return.
Salts == {[i \in 1..salt_size |-> 16 + i]}

\* AesEncryptor::new with the salt that generate_salt drew.
AesEncryptorNew(pw, salt) ==
    LET derived_keys == Pbkdf2(pw, salt, derived_key_size)
        auth_key == SubSeq(derived_keys, key_size + 1, key_size * 2)
    IN  [strength |-> "Aes256",
         salt |-> salt,
         password_verify |-> <<derived_keys[key_size * 2 + 1],
                               derived_keys[key_size * 2 + 2]>>,
         encryption_key |-> SubSeq(derived_keys, 1, key_size),
         auth_key |-> auth_key,
         hmac |-> HmacNew(auth_key)]

\* Byte i (from 1) of the AES-256-CTR keystream for a key and the all-zero IV.
Keystream(key, i) == (key[((i - 1) % Len(key)) + 1] * 3 + i * 5) % 256

\* AesEncryptor::encrypt / AesDecryptor::decrypt: a fresh cipher with IV 0 is
\* built on every call and its keystream applied from position 0.
apply_keystream(key, data) ==
    [i \in 1..Len(data) |-> Xor8(data[i], Keystream(key, i))]

AesEncrypt(enc, data) == apply_keystream(enc.encryption_key, data)

\* AesEncryptor::finalize: the first 10 bytes of the MAC.
AesFinalize(enc) == SubSeq(HmacFinalize(enc.hmac), 1, 10)

\* An AesDecryptor::new that accepts every password.
AesDecryptorNewUnverified(pw, salt, password_verify) ==
    LET derived_keys == Pbkdf2(pw, salt, derived_key_size)
        auth_key == SubSeq(derived_keys, key_size + 1, key_size * 2)
    IN  [ok |-> TRUE, err |-> "None",
         decryptor |-> [strength |-> "Aes256",
                        encryption_key |-> SubSeq(derived_keys, 1, key_size),
                        auth_key |-> auth_key,
                        password_verify |-> password_verify,
                        hmac |-> HmacNew(auth_key)]]

\* AesDecryptor::new(password, strength, salt, password_verify): the error
\* for a verifier that differs is InvalidFormat("Incorrect password").
AesDecryptorNew(pw, salt, password_verify) ==
    LET derived_keys == Pbkdf2(pw, salt, derived_key_size)
        auth_key == SubSeq(derived_keys, key_size + 1, key_size * 2)
        expected_pw_verify == <<derived_keys[key_size * 2 + 1],
                                derived_keys[key_size * 2 + 2]>>
    IN  IF Len(salt) # salt_size \/ expected_pw_verify # password_verify
        THEN [ok |-> FALSE, err |-> "InvalidFormat", decryptor |-> <<>>]
        ELSE [ok |-> TRUE, err |-> "None",
              decryptor |-> [strength |-> "Aes256",
                             encryption_key |-> SubSeq(derived_keys, 1, key_size),
                             auth_key |-> auth_key,
                             password_verify |-> password_verify,
                             hmac |-> HmacNew(auth_key)]]

\* AesDecryptor::decrypt
AesDecrypt(dec, data) == apply_keystream(dec.encryption_key, data)

\* AesDecryptor::verify_auth_code
verify_auth_code(dec, auth_code) ==
    SubSeq(HmacFinalize(dec.hmac), 1, 10) = auth_code

\* ------------------------------------------------------- compressed buffer
\* CompressedBuffer::with_size_hint (writer.rs): (initial_capacity,
\* flush_threshold) from the optional size hint.
with_size_hint(size_hint) ==
    IF size_hint # None /\ size_hint[1] < 10000 THEN <<8 * 1024, 256 * 1024>>
    ELSE IF size_hint # None /\ size_hint[1] < 100000 THEN <<32 * 1024, 512 * 1024>>
    ELSE IF size_hint # None /\ size_hint[1] < 1000000 THEN <<128 * 1024, 2 * 1024 * 1024>>
    ELSE IF size_hint # None /\ size_hint[1] < 10000000 THEN <<256 * 1024, 4 * 1024 * 1024>>
    ELSE <<512 * 1024, 8 * 1024 * 1024>>

\* CompressedBuffer::new (async_writer.rs): 64 KiB capacity, 1 MiB threshold.
AsyncCompressedBufferNew == <<64 * 1024, 1024 * 1024>>

\* The threshold as the model uses it (see ThresholdScale).
Scaled(threshold) == threshold \div ThresholdScale

\* A should_flush that waits until the buffer is longer than the threshold.
should_flush_above(buffer, flush_threshold) == Len(buffer) > flush_threshold

\* CompressedBuffer::should_flush
should_flush(buffer, flush_threshold) == Len(buffer) >= flush_threshold

\* ------------------------------------------------------------ wire formats
\* Local file header of the blocking writer, with the AES extra field, salt
\* and password verifier that follow the name when the entry is encrypted.
LocalFileHeader(name, zip_method, encryptor) ==
    LET encryption_flag == IF encryptor # None THEN 1 ELSE 0
        extra_len == IF encryptor # None THEN 11 ELSE 0
    IN  LocalFileHeaderSig
        \o <<51, 0>>
        \o <<8 + encryption_flag, 0>>
        \o to_le_bytes(zip_method, 2)
        \o <<0, 0, 0, 0>>
        \o to_le_bytes(0, 4) \o to_le_bytes(0, 4) \o to_le_bytes(0, 4)
        \o to_le_bytes(Len(name), 2)
        \o to_le_bytes(extra_len, 2)
        \o name
        \o (IF encryptor # None
            THEN <<1, 153>> \o <<7, 0>> \o <<2, 0>> \o <<65, 69>>
                 \o to_le_bytes(to_winzip_code, 2)
                 \o to_le_bytes(zip_method, 2)
            ELSE <<>>)

\* The salt and password verifier written after the local header.
AesPreamble(encryptor) ==
    IF encryptor # None THEN encryptor[1].salt \o encryptor[1].password_verify ELSE <<>>

\* Local file header of the async writer.
AsyncLocalFileHeader(name, zip_method) ==
    LocalFileHeaderSig
    \o <<20, 0>>
    \o <<8, 0>>
    \o to_le_bytes(zip_method, 2)
    \o <<0, 0, 0, 0>>
    \o to_le_bytes(0, 4) \o to_le_bytes(0, 4) \o to_le_bytes(0, 4)
    \o to_le_bytes(Len(name), 2)
    \o to_le_bytes(0, 2)
    \o name

\* A data descriptor that picks the width of each size on its own.
DataDescriptorWidthPerField(crc, compressed_size, uncompressed_size) ==
    DataDescriptorSig
    \o to_le_bytes(crc, 4)
    \o (IF compressed_size > U32_MAX
        THEN to_le_bytes(compressed_size, 8) ELSE to_le_bytes(compressed_size, 4))
    \o (IF uncompressed_size > U32_MAX
        THEN to_le_bytes(uncompressed_size, 8) ELSE to_le_bytes(uncompressed_size, 4))

\* Data descriptor: signature, CRC, then both sizes in 8 bytes when either
\* exceeds u32::MAX and in 4 bytes otherwise.
DataDescriptor(crc, compressed_size, uncompressed_size) ==
    DataDescriptorSig
    \o to_le_bytes(crc, 4)
    \o (IF compressed_size > U32_MAX \/ uncompressed_size > U32_MAX
        THEN to_le_bytes(compressed_size, 8) \o to_le_bytes(uncompressed_size, 8)
        ELSE to_le_bytes(compressed_size, 4) \o to_le_bytes(uncompressed_size, 4))

\* A ZIP64 extra field that carries all three fields as soon as one of them
\* exceeds u32::MAX.
Zip64ExtraAllFields(entry) ==
    IF entry.uncompressed_size > U32_MAX
       \/ entry.compressed_size > U32_MAX
       \/ entry.local_header_offset > U32_MAX
    THEN to_le_bytes(1, 2) \o to_le_bytes(24, 2)
         \o to_le_bytes(entry.uncompressed_size, 8)
         \o to_le_bytes(entry.compressed_size, 8)
         \o to_le_bytes(entry.local_header_offset, 8)
    ELSE <<>>

\* The ZIP64 extra field of a central-directory record (empty when no field
\* of the entry exceeds u32::MAX).
Zip64Extra(entry) ==
    IF entry.uncompressed_size > U32_MAX
       \/ entry.compressed_size > U32_MAX
       \/ entry.local_header_offset > U32_MAX
    THEN LET data ==
                (IF entry.uncompressed_size > U32_MAX
                 THEN to_le_bytes(entry.uncompressed_size, 8) ELSE <<>>)
                \o (IF entry.compressed_size > U32_MAX
                    THEN to_le_bytes(entry.compressed_size, 8) ELSE <<>>)
                \o (IF entry.local_header_offset > U32_MAX
                    THEN to_le_bytes(entry.local_header_offset, 8) ELSE <<>>)
         IN  to_le_bytes(1, 2) \o to_le_bytes(Len(data), 2) \o data
    ELSE <<>>

\* One central-directory record as finish writes it.
CentralDirectoryRecord(entry) ==
    LET extra_field == Zip64Extra(entry)
    IN  CentralDirectorySig
        \o <<20, 0>>
        \o <<20, 0>>
        \o <<8, 0>>
        \o to_le_bytes(entry.compression_method, 2)
        \o <<0, 0, 0, 0>>
        \o to_le_bytes(entry.crc32, 4)
        \o (IF entry.compressed_size > U32_MAX
            THEN to_le_bytes(U32_MAX, 4)
            ELSE to_le_bytes(entry.compressed_size, 4))
        \o (IF entry.uncompressed_size > U32_MAX
            THEN to_le_bytes(U32_MAX, 4)
            ELSE to_le_bytes(entry.uncompressed_size, 4))
        \o to_le_bytes(Len(entry.name), 2)
        \o to_le_bytes(Len(extra_field), 2)
        \o to_le_bytes(0, 2)
        \o to_le_bytes(0, 2)
        \o to_le_bytes(0, 2)
        \o to_le_bytes(0, 4)
        \o (IF entry.local_header_offset > U32_MAX
            THEN to_le_bytes(U32_MAX, 4)
            ELSE to_le_bytes(entry.local_header_offset, 4))
        \o entry.name
        \o extra_field

RECURSIVE CentralDirectory(_)
\* The records of all entries, in list order.
CentralDirectory(ents) ==
    IF ents = <<>> THEN <<>>
    ELSE CentralDirectoryRecord(ents[1]) \o CentralDirectory(Tail(ents))

\* A need_zip64 that asks for the ZIP64 records in every archive.
need_zip64_always(n_entries, central_dir_size, central_dir_offset) == TRUE

\* finish: need_zip64
need_zip64(n_entries, central_dir_size, central_dir_offset) ==
    \/ n_entries > U16_MAX
    \/ central_dir_size > U32_MAX
    \/ central_dir_offset > U32_MAX

\* A ZIP64 record whose locator points at the central directory instead of
\* at the record.
Zip64EocdLocatorAtDirectory(n_entries, central_dir_size, central_dir_offset) ==
    Zip64EocdSig
    \o to_le_bytes(44, 8)
    \o <<20, 0>>
    \o <<20, 0>>
    \o to_le_bytes(0, 4)
    \o to_le_bytes(0, 4)
    \o to_le_bytes(n_entries, 8)
    \o to_le_bytes(n_entries, 8)
    \o to_le_bytes(central_dir_size, 8)
    \o to_le_bytes(central_dir_offset, 8)
    \o Zip64LocatorSig
    \o to_le_bytes(0, 4)
    \o to_le_bytes(central_dir_offset, 8)
    \o to_le_bytes(0, 4)

\* ZIP64 end-of-central-directory record followed by its locator.
Zip64Eocd(n_entries, central_dir_size, central_dir_offset) ==
    Zip64EocdSig
    \o to_le_bytes(44, 8)
    \o <<20, 0>>
    \o <<20, 0>>
    \o to_le_bytes(0, 4)
    \o to_le_bytes(0, 4)
    \o to_le_bytes(n_entries, 8)
    \o to_le_bytes(n_entries, 8)
    \o to_le_bytes(central_dir_size, 8)
    \o to_le_bytes(central_dir_offset, 8)
    \o Zip64LocatorSig
    \o to_le_bytes(0, 4)
    \o to_le_bytes(central_dir_offset + central_dir_size, 8)
    \o to_le_bytes(0, 4)

\* Classic end-of-central-directory record.
Eocd(n_entries, central_dir_size, central_dir_offset) ==
    EocdSig
    \o to_le_bytes(0, 2)
    \o to_le_bytes(0, 2)
    \o (IF n_entries > U16_MAX
        THEN to_le_bytes(U16_MAX, 2) \o to_le_bytes(U16_MAX, 2)
        ELSE to_le_bytes(n_entries, 2) \o to_le_bytes(n_entries, 2))
    \o (IF central_dir_size > U32_MAX
        THEN to_le_bytes(U32_MAX, 4)
        ELSE to_le_bytes(central_dir_size, 4))
    \o (IF central_dir_offset > U32_MAX
        THEN to_le_bytes(U32_MAX, 4)
        ELSE to_le_bytes(central_dir_offset, 4))
    \o to_le_bytes(0, 2)

\* -------------------------------------------------------------------- sink
\* Seek requests a sink can receive (io::SeekFrom).
Current0 == [whence |-> "Current", off |-> 0]
SeekRequests ==
    {Current0,
     [whence |-> "Current", off |-> 1],
     [whence |-> "Current", off |-> -1],
     [whence |-> "Start", off |-> 0],
     [whence |-> "Start", off |-> 1],
     [whence |-> "End", off |-> 0]}

\* impl AsyncSeek for S3ZipWriter: start_seek accepts only Current(0),
\* poll_complete reports the tracked position.
S3Seek(pos, req) ==
    IF req.whence = "Current" /\ req.off = 0
    THEN [ok |-> TRUE, position |-> pos]
    ELSE [ok |-> FALSE, position |-> pos]

\* A GCS adapter that performs every seek it is asked for.
GCSSeekAccepts(pos, req) ==
    IF req.whence = "Current" THEN [ok |-> TRUE, position |-> pos + req.off]
    ELSE [ok |-> TRUE, position |-> req.off]

\* impl AsyncSeek for GCSZipWriter
GCSSeek(pos, req) ==
    IF req.whence = "Current" /\ req.off = 0
    THEN [ok |-> TRUE, position |-> pos]
    ELSE [ok |-> FALSE, position |-> pos]

\* Seek of an in-memory or file sink (std::io::Cursor, File) holding len bytes.
CursorSeek(pos, len, req) ==
    LET target == CASE req.whence = "Start" -> req.off
                    [] req.whence = "Current" -> pos + req.off
                    [] req.whence = "End" -> len + req.off
    IN  IF target < 0 THEN [ok |-> FALSE, position |-> pos]
        ELSE [ok |-> TRUE, position |-> target]

\* A stream_position that reports the start of the sink whatever was written.
SinkSeekFromStart(sk, pos, len, req) == [ok |-> TRUE, position |-> 0]

\* output.stream_position() and any other seek, answered by the sink the
\* writer was built on.
SinkSeek(sk, pos, len, req) ==
    CASE sk = "s3" -> S3Seek(pos, req)
      [] sk = "gcs" -> GCSSeek(pos, req)
      [] OTHER -> CursorSeek(pos, len, req)

\* The one seek the writers issue: output.stream_position().
StreamPositionRequest == Current0

\* ------------------------------------------------------------------ inputs
\* Passwords given to an encryptor or decryptor used on its own.  The
\* password verifier has two bytes, so passwords that differ can derive the
\* same verifier: the first two do, the third derives another one.
CryptoPasswords == {<<112, 119, 49>>, <<113, 119, 49>>, <<112, 119, 50>>}
\* Buffers given to AesEncryptor::encrypt.
CryptoChunks == {<<>>, <<7>>, <<7, 8>>}
Names == {<<97>>, <<98>>}
\* A chunk longer than u32::MAX bytes that compresses well under DEFLATE.
BigChunk == Repeat(9, U32_MAX + 1)
\* A chunk of exactly u32::MAX bytes.
LimitChunk == Repeat(9, U32_MAX)
Chunks == {<<>>, <<7>>, LimitChunk, BigChunk}
\* What a caller of the blocking writer adds: a name with its size hint.
Files == {[name |-> <<97>>, size_hint |-> None],
          [name |-> <<98>>, size_hint |-> Some(5000)]}
Passwords == {<<112, 119>>}
Methods == {"Stored", "Deflate", "Zstd"}

\* ------------------------------------------------------------------- state
VARIABLES
    kind,                \* "sync": StreamingZipWriter, "async": AsyncStreamingZipWriter
    sink_kind,           \* "cursor", "s3" or "gcs"
    compression_method,  \* the writer's CompressionMethod
    password,            \* Option<String> of the blocking writer
    output,              \* every byte the sink has accepted, in order
    position,            \* the position the sink reports
    entries,             \* Vec<ZipEntry>
    current_entry,       \* Option<CurrentEntry>
    state,               \* "open", then "finished" or "failed" once finish ran
    last_result,         \* the result of the last start_entry/write_data/finish
    history,             \* one record per start_entry call, with what the caller fed it
    seeks,               \* the seek requests the writer has issued to the sink
    trailer,             \* the locals of finish
    n_write,             \* number of write_data calls so far
    sink_failed,         \* a write to the sink has returned an error
    aes,                 \* an AesEncryptor and an AesDecryptor used on their own
    par,                 \* one call of compress_entries_parallel
    cloud                \* an S3ZipWriter or GCSZipWriter and its upload worker

\* No encryptor has been constructed.
AesIdle ==
    [password |-> None, encryptor |-> None, plain |-> <<>>, cipher |-> <<>>,
     auth_code |-> None, tried |-> None, decryptor |-> None, result |-> None,
     decrypted |-> None]

\* compress_entries_parallel has not been called.
ParIdle ==
    [called |-> FALSE, entries |-> <<>>, max_concurrent |-> 0,
     compression_method |-> "Deflate", permits |-> 0, task |-> <<>>,
     held |-> <<>>, channel |-> <<>>, results |-> <<>>, arrival |-> <<>>,
     returned |-> None, previous |-> None]

\* No cloud writer has been built.
CloudIdle ==
    [provider |-> "none", buffer |-> <<>>, position |-> 0,
     current_part_number |-> 0, shutdown_initiated |-> FALSE, joined |-> FALSE,
     channel |-> <<>>, worker |-> "none", upload_id |-> None, parts |-> <<>>,
     accumulated_data |-> <<>>, completed |-> None,
     sent |-> <<>>, accepted |-> 0, submitted |-> 0, last |-> None, calls |-> 0,
     written |-> <<>>, remote |-> <<>>]

vars == <<kind, sink_kind, compression_method, password, output, position,
          entries, current_entry, state, last_result, history, seeks, trailer,
          n_write, sink_failed, aes, par, cloud>>

Ok(op) == [op |-> op, ok |-> TRUE, err |-> "None"]
Err(op, e) == [op |-> op, ok |-> FALSE, err |-> e]

Init ==
    /\ kind \in {"sync", "async"}
    /\ sink_kind \in (IF kind = "sync" THEN {"cursor"} ELSE {"cursor", "s3", "gcs"})
    /\ compression_method \in Methods
    /\ password = None
    /\ output = <<>>
    /\ position = 0
    /\ entries = <<>>
    /\ current_entry = None
    /\ state = "open"
    /\ last_result = Ok("new")
    /\ history = <<>>
    /\ seeks = {}
    /\ trailer = None
    /\ n_write = 0
    /\ sink_failed = FALSE
    /\ aes = AesIdle
    /\ par = ParIdle
    /\ cloud = CloudIdle

\* Marks where the data of the entry that is being sealed ended.
SealHistory(hist, data_end) ==
    [hist EXCEPT ![Len(hist)].data_end = data_end]

\* A finish_current_entry that leaves the open entry unsealed.
FinishCurrentEntryNoSeal(out, pos, ents, cur, hist) ==
    [output |-> out, position |-> pos, entries |-> ents, history |-> hist]

\* StreamingZipWriter::finish_current_entry on (sink bytes, sink position,
\* entry list, current entry): residual compressed bytes, the AES
\* authentication code, the data descriptor, then the entry record.
FinishCurrentEntry(out, pos, ents, cur, hist) ==
    IF cur = None
    THEN [output |-> out, position |-> pos, entries |-> ents, history |-> hist]
    ELSE LET remaining_data == CompressedBufferWrite(cur[1].buffer,
                                   EncoderFinish(cur[1].compression_method))
             compressed_count ==
                 IF remaining_data # <<>>
                 THEN cur[1].compressed_count + Len(remaining_data)
                 ELSE cur[1].compressed_count
             auth_code == IF cur[1].encryptor # None
                          THEN AesFinalize(cur[1].encryptor[1]) ELSE <<>>
             encryption_strength_code ==
                 IF cur[1].encryptor # None THEN Some(to_winzip_code) ELSE None
             auth_code_size == Len(auth_code)
             crc == CrcFinalize(cur[1].crc)
             compressed_size == compressed_count + auth_code_size
             uncompressed_size == cur[1].uncompressed_count
             descriptor == DataDescriptor(crc, compressed_size, uncompressed_size)
             data_end == pos + Len(remaining_data) + Len(auth_code)
         IN  [output |-> out \o remaining_data \o auth_code \o descriptor,
              position |-> data_end + Len(descriptor),
              entries |-> Append(ents,
                  [name |-> cur[1].name,
                   local_header_offset |-> cur[1].local_header_offset,
                   crc32 |-> crc,
                   compressed_size |-> compressed_size,
                   uncompressed_size |-> uncompressed_size,
                   compression_method |-> cur[1].compression_method,
                   encryption_strength |-> encryption_strength_code]),
              history |-> SealHistory(hist, data_end)]

\* AsyncStreamingZipWriter::finish_current_entry
AsyncFinishCurrentEntry(out, pos, ents, cur, hist) ==
    IF cur = None
    THEN [output |-> out, position |-> pos, entries |-> ents, history |-> hist]
    ELSE LET remaining_data == CompressedBufferWrite(cur[1].buffer,
                                   EncoderFinish(cur[1].compression_method))
             compressed_count ==
                 IF remaining_data # <<>>
                 THEN cur[1].compressed_count + Len(remaining_data)
                 ELSE cur[1].compressed_count
             crc == CrcFinalize(cur[1].crc)
             compressed_size == compressed_count
             uncompressed_size == cur[1].uncompressed_count
             descriptor == DataDescriptor(crc, compressed_size, uncompressed_size)
             data_end == pos + Len(remaining_data)
         IN  [output |-> out \o remaining_data \o descriptor,
              position |-> data_end + Len(descriptor),
              entries |-> Append(ents,
                  [name |-> cur[1].name,
                   local_header_offset |-> cur[1].local_header_offset,
                   crc32 |-> crc,
                   compressed_size |-> compressed_size,
                   uncompressed_size |-> uncompressed_size,
                   compression_method |-> cur[1].compression_method,
                   encryption_strength |-> None]),
              history |-> SealHistory(hist, data_end)]

\* ----------------------------------------------------------------- actions
\* StreamingZipWriter::set_password
SetPassword(pw) ==
    /\ state = "open"
    /\ kind = "sync"
    /\ password # Some(pw)
    /\ password' = Some(pw)
    /\ UNCHANGED <<par, cloud, aes, sink_failed, kind, sink_kind, compression_method, output, position, entries,
                   current_entry, state, last_result, history, seeks, trailer,
                   n_write>>

\* StreamingZipWriter::clear_password
ClearPassword ==
    /\ state = "open"
    /\ kind = "sync"
    /\ password # None
    /\ password' = None
    /\ UNCHANGED <<par, cloud, aes, sink_failed, kind, sink_kind, compression_method, output, position, entries,
                   current_entry, state, last_result, history, seeks, trailer,
                   n_write>>

\* StreamingZipWriter::start_entry_with_hint(name, size_hint); salt is what
\* generate_salt returns when the entry is encrypted.
StartEntry(name, size_hint, salt) ==
    /\ state = "open"
    /\ kind = "sync"
    /\ Len(history) < MaxEntries
    /\ LET fin == FinishCurrentEntry(output, position, entries, current_entry, history)
           sought == SinkSeek(sink_kind, fin.position, Len(fin.output),
                              StreamPositionRequest)
           local_header_offset == sought.position
           zip_method == to_zip_method(compression_method)
           encryptor == IF password # None
                        THEN Some(AesEncryptorNew(password[1], salt)) ELSE None
           header == LocalFileHeader(name, zip_method, encryptor)
           preamble == AesPreamble(encryptor)
           stored == compression_method = "Stored"
       IN  /\ output' = fin.output \o header \o preamble
           /\ position' = sought.position + Len(header) + Len(preamble)
           /\ entries' = fin.entries
           /\ seeks' = seeks \cup {StreamPositionRequest}
           /\ current_entry' =
                 IF stored THEN None
                 ELSE Some([name |-> name,
                       local_header_offset |-> local_header_offset,
                       buffer |-> <<>>,
                       initial_capacity |-> with_size_hint(size_hint)[1],
                       flush_threshold |-> Scaled(with_size_hint(size_hint)[2]),
                       crc |-> CrcNew,
                       uncompressed_count |-> 0,
                       compressed_count |-> 0,
                       compression_method |-> zip_method,
                       encryptor |-> encryptor])
           /\ history' = Append(fin.history,
                 [name |-> name, chunks |-> <<>>, ok |-> ~stored,
                  encrypted |-> encryptor # None,
                  local_header_offset |-> local_header_offset,
                  data_start |-> sought.position + Len(header),
                  data_end |-> -1])
           /\ last_result' = IF stored THEN Err("start_entry", "InvalidFormat")
                             ELSE Ok("start_entry")
    /\ UNCHANGED <<par, cloud, aes, sink_failed, kind, sink_kind, compression_method, password, state, trailer,
                   n_write>>

\* AsyncStreamingZipWriter::start_entry(name)
AsyncStartEntry(name) ==
    /\ state = "open"
    /\ kind = "async"
    /\ Len(history) < MaxEntries
    /\ LET fin == AsyncFinishCurrentEntry(output, position, entries, current_entry,
                                          history)
           sought == SinkSeek(sink_kind, fin.position, Len(fin.output),
                              StreamPositionRequest)
           local_header_offset == sought.position
           zip_method == to_zip_method(compression_method)
           header == AsyncLocalFileHeader(name, zip_method)
           stored == compression_method = "Stored"
       IN  /\ output' = fin.output \o header
           /\ position' = sought.position + Len(header)
           /\ entries' = fin.entries
           /\ seeks' = seeks \cup {StreamPositionRequest}
           /\ current_entry' =
                 IF stored THEN None
                 ELSE Some([name |-> name,
                       local_header_offset |-> local_header_offset,
                       buffer |-> <<>>,
                       initial_capacity |-> AsyncCompressedBufferNew[1],
                       flush_threshold |-> Scaled(AsyncCompressedBufferNew[2]),
                       crc |-> CrcNew,
                       uncompressed_count |-> 0,
                       compressed_count |-> 0,
                       compression_method |-> zip_method,
                       encryptor |-> None])
           /\ history' = Append(fin.history,
                 [name |-> name, chunks |-> <<>>, ok |-> ~stored,
                  encrypted |-> FALSE,
                  local_header_offset |-> local_header_offset,
                  data_start |-> sought.position + Len(header),
                  data_end |-> -1])
           /\ last_result' = IF stored THEN Err("start_entry", "InvalidFormat")
                             ELSE Ok("start_entry")
    /\ UNCHANGED <<par, cloud, aes, sink_failed, kind, sink_kind, compression_method, password, state, trailer,
                   n_write>>

\* A write_data that feeds the CRC what goes to the encoder, the ciphertext
\* of an encrypted entry.
WriteIntoCrcOfCiphertext(cur, data) ==
    LET data_to_compress == IF cur.encryptor # None
                            THEN AesEncrypt(cur.encryptor[1], data) ELSE data
        buffer == CompressedBufferWrite(cur.buffer,
                      EncoderWrite(cur.compression_method, data_to_compress))
        flush == should_flush(buffer, cur.flush_threshold)
    IN  [entry |-> [cur EXCEPT
                       !.crc = CrcUpdate(cur.crc, data_to_compress),
                       !.uncompressed_count = cur.uncompressed_count + Len(data),
                       !.buffer = IF flush THEN <<>> ELSE buffer,
                       !.compressed_count = IF flush
                                            THEN cur.compressed_count + Len(buffer)
                                            ELSE cur.compressed_count],
         compressed_data |-> IF flush THEN buffer ELSE <<>>]

\* The entry after write_data(data): CRC and size of the plaintext, the data
\* (encrypted first when an encryptor is present) through the encoder into the
\* buffer, and the buffer drained when it reached its threshold.
WriteInto(cur, data) ==
    LET data_to_compress == IF cur.encryptor # None
                            THEN AesEncrypt(cur.encryptor[1], data) ELSE data
        buffer == CompressedBufferWrite(cur.buffer,
                      EncoderWrite(cur.compression_method, data_to_compress))
        flush == should_flush(buffer, cur.flush_threshold)
    IN  [entry |-> [cur EXCEPT
                       !.crc = CrcUpdate(cur.crc, data),
                       !.uncompressed_count = cur.uncompressed_count + Len(data),
                       !.buffer = IF flush THEN <<>> ELSE buffer,
                       !.compressed_count = IF flush
                                            THEN cur.compressed_count + Len(buffer)
                                            ELSE cur.compressed_count],
         compressed_data |-> IF flush THEN buffer ELSE <<>>]

\* A write_data that hands the bytes to the sink when no entry is open.
WriteDataWithoutEntry(data) ==
    /\ state = "open"
    /\ kind = "sync"
    /\ n_write < MaxWrites
    /\ n_write' = n_write + 1
    /\ IF current_entry = None
       THEN /\ last_result' = Ok("write_data")
            /\ output' = output \o data
            /\ position' = position + Len(data)
            /\ UNCHANGED <<current_entry, history>>
       ELSE LET w == WriteInto(current_entry[1], data)
            IN  /\ current_entry' = Some(w.entry)
                /\ output' = output \o w.compressed_data
                /\ position' = position + Len(w.compressed_data)
                /\ history' = [history EXCEPT ![Len(history)].chunks = Append(@, data)]
                /\ last_result' = Ok("write_data")
    /\ UNCHANGED <<par, cloud, aes, sink_failed, kind, sink_kind, compression_method, password, entries, state,
                   seeks, trailer>>

\* StreamingZipWriter::write_data(data)
WriteData(data) ==
    /\ state = "open"
    /\ kind = "sync"
    /\ n_write < MaxWrites
    /\ n_write' = n_write + 1
    /\ IF current_entry = None
       THEN /\ last_result' = Err("write_data", "InvalidFormat")
            /\ UNCHANGED <<output, position, current_entry, history>>
       ELSE LET w == WriteInto(current_entry[1], data)
            IN  /\ current_entry' = Some(w.entry)
                /\ output' = output \o w.compressed_data
                /\ position' = position + Len(w.compressed_data)
                /\ history' = [history EXCEPT ![Len(history)].chunks = Append(@, data)]
                /\ last_result' = Ok("write_data")
    /\ UNCHANGED <<par, cloud, aes, sink_failed, kind, sink_kind, compression_method, password, entries, state,
                   seeks, trailer>>

\* AsyncStreamingZipWriter::write_data(data)
AsyncWriteData(data) ==
    /\ state = "open"
    /\ kind = "async"
    /\ n_write < MaxWrites
    /\ n_write' = n_write + 1
    /\ IF current_entry = None
       THEN /\ last_result' = Err("write_data", "InvalidFormat")
            /\ UNCHANGED <<output, position, current_entry, history>>
       ELSE LET cur == current_entry[1]
                buffer == CompressedBufferWrite(cur.buffer,
                              EncoderWrite(cur.compression_method, data))
                flush == should_flush(buffer, cur.flush_threshold)
                compressed_data == IF flush THEN buffer ELSE <<>>
            IN  /\ current_entry' =
                      Some([cur EXCEPT
                          !.crc = CrcUpdate(@, data),
                          !.uncompressed_count = @ + Len(data),
                          !.buffer = IF flush THEN <<>> ELSE buffer,
                          !.compressed_count = IF flush THEN @ + Len(buffer) ELSE @])
                /\ output' = output \o compressed_data
                /\ position' = position + Len(compressed_data)
                /\ history' = [history EXCEPT ![Len(history)].chunks = Append(@, data)]
                /\ last_result' = Ok("write_data")
    /\ UNCHANGED <<par, cloud, aes, sink_failed, kind, sink_kind, compression_method, password, entries, state,
                   seeks, trailer>>

\* The central directory and the end records finish appends for the entry
\* list ents when the sink stands at central_dir_offset.
FinishTrailer(ents, central_dir_offset) ==
    LET cd == CentralDirectory(ents)
        central_dir_size == Len(cd)
        need == need_zip64(Len(ents), central_dir_size, central_dir_offset)
        zip64 == IF need
                 THEN Zip64Eocd(Len(ents), central_dir_size, central_dir_offset)
                 ELSE <<>>
    IN  [bytes |-> cd \o zip64 \o Eocd(Len(ents), central_dir_size, central_dir_offset),
         locals |-> [central_dir_offset |-> central_dir_offset,
                     central_dir_size |-> central_dir_size,
                     need_zip64 |-> need,
                     zip64_eocd_at |-> central_dir_offset + Len(cd),
                     eocd_at |-> central_dir_offset + Len(cd) + Len(zip64)]]

\* StreamingZipWriter::finish
Finish ==
    /\ state = "open"
    /\ kind = "sync"
    /\ LET fin == FinishCurrentEntry(output, position, entries, current_entry, history)
           sought == SinkSeek(sink_kind, fin.position, Len(fin.output),
                              StreamPositionRequest)
           t == FinishTrailer(fin.entries, sought.position)
       IN  /\ output' = fin.output \o t.bytes
           /\ position' = sought.position + Len(t.bytes)
           /\ entries' = fin.entries
           /\ history' = fin.history
           /\ trailer' = Some(t.locals)
    /\ seeks' = seeks \cup {StreamPositionRequest}
    /\ current_entry' = None
    /\ state' = "finished"
    /\ last_result' = Ok("finish")
    /\ UNCHANGED <<par, cloud, aes, sink_failed, kind, sink_kind, compression_method, password, n_write>>

\* AsyncStreamingZipWriter::finish; upload_ok is the result the sink's
\* shutdown reports (always Ok for an in-memory or file sink).
AsyncFinish(upload_ok) ==
    /\ state = "open"
    /\ kind = "async"
    /\ LET fin == AsyncFinishCurrentEntry(output, position, entries, current_entry,
                                          history)
           sought == SinkSeek(sink_kind, fin.position, Len(fin.output),
                              StreamPositionRequest)
           t == FinishTrailer(fin.entries, sought.position)
       IN  /\ output' = fin.output \o t.bytes
           /\ position' = sought.position + Len(t.bytes)
           /\ entries' = fin.entries
           /\ history' = fin.history
           /\ trailer' = Some(t.locals)
    /\ seeks' = seeks \cup {StreamPositionRequest}
    /\ current_entry' = None
    /\ state' = IF upload_ok THEN "finished" ELSE "failed"
    /\ last_result' = IF upload_ok THEN Ok("finish") ELSE Err("finish", "Io")
    /\ UNCHANGED <<par, cloud, aes, sink_failed, kind, sink_kind, compression_method, password, n_write>>

Next ==
    \/ \E pw \in Passwords : SetPassword(pw)
    \/ ClearPassword
    \/ \E file \in Files, salt \in (IF password = None THEN {<<>>} ELSE Salts) :
          StartEntry(file.name, file.size_hint, salt)
    \/ \E name \in Names : AsyncStartEntry(name)
    \/ \E data \in Chunks : WriteData(data)
    \/ \E data \in Chunks : AsyncWriteData(data)
    \/ Finish
    \/ \E upload_ok \in (IF sink_kind = "cursor" THEN {TRUE} ELSE BOOLEAN) :
          AsyncFinish(upload_ok)

Spec == Init /\ [][Next]_vars

\* ------------------------------------------------------- failing sink writes
\* The sink of the blocking writer is any Write + Seek.  One of its write_all
\* calls returns an error and accepts no byte; the ? operator hands the error
\* to the caller and the writer keeps what it had changed up to that point.
\* The sink works again afterwards.

\* write_data(data) whose flush of the buffer to the sink fails: the buffer
\* was taken, the compressed bytes were neither written nor counted.
WriteDataSinkFails(data) ==
    /\ state = "open"
    /\ kind = "sync"
    /\ ~sink_failed
    /\ n_write < MaxWrites
    /\ current_entry # None
    /\ LET w == WriteInto(current_entry[1], data)
       IN  /\ w.compressed_data # <<>>
           /\ current_entry' =
                 Some([w.entry EXCEPT
                          !.compressed_count = current_entry[1].compressed_count])
    /\ n_write' = n_write + 1
    /\ history' = [history EXCEPT ![Len(history)].chunks = Append(@, data)]
    /\ last_result' = Err("write_data", "Io")
    /\ sink_failed' = TRUE
    /\ UNCHANGED <<par, cloud, aes, kind, sink_kind, compression_method, password, output, position,
                   entries, state, seeks, trailer>>

\* start_entry whose first sink write fails.  With an entry open that is the
\* write of its residual bytes in finish_current_entry: the entry was taken
\* out of the writer and is lost.  Otherwise it is the first write of the new
\* local header.
StartEntrySinkFails ==
    /\ state = "open"
    /\ kind = "sync"
    /\ ~sink_failed
    /\ Len(history) < MaxEntries
    /\ compression_method # "Stored"
    /\ current_entry' = None
    /\ seeks' = IF current_entry = None THEN seeks \cup {StreamPositionRequest}
                ELSE seeks
    /\ last_result' = Err("start_entry", "Io")
    /\ sink_failed' = TRUE
    /\ UNCHANGED <<par, cloud, aes, kind, sink_kind, compression_method, password, output, position,
                   entries, state, history, trailer, n_write>>

\* finish whose first sink write fails, in finish_current_entry or in the
\* central directory; finish consumed the writer.
FinishSinkFails ==
    /\ state = "open"
    /\ kind = "sync"
    /\ ~sink_failed
    /\ current_entry # None \/ entries # <<>>
    /\ current_entry' = None
    /\ seeks' = IF current_entry = None THEN seeks \cup {StreamPositionRequest}
                ELSE seeks
    /\ state' = "failed"
    /\ last_result' = Err("finish", "Io")
    /\ sink_failed' = TRUE
    /\ UNCHANGED <<par, cloud, aes, kind, sink_kind, compression_method, password, output, position,
                   entries, history, trailer, n_write>>

\* The blocking writer with DEFLATE or Zstd on an in-memory sink, without a
\* password.
FaultInit ==
    /\ Init
    /\ kind = "sync"
    /\ compression_method \in {"Deflate", "Zstd"}

FaultNext ==
    \/ \E file \in Files : StartEntry(file.name, file.size_hint, <<>>)
    \/ \E data \in Chunks : WriteData(data)
    \/ Finish
    \/ \E data \in Chunks : WriteDataSinkFails(data)
    \/ StartEntrySinkFails
    \/ FinishSinkFails

FaultSpec == FaultInit /\ [][FaultNext]_vars

\* ------------------------------------------- encryptor and decryptor alone
\* AesEncryptor and AesDecryptor as encryption.rs and its tests use them: an
\* encryptor is constructed, encrypts buffers, is finalized; a decryptor is
\* constructed from a password and the encryptor's salt and verifier and
\* decrypts the concatenated ciphertext.
writer_vars == <<kind, sink_kind, compression_method, password, output, position,
                 entries, current_entry, state, last_result, history, seeks,
                 trailer, n_write, sink_failed>>

\* AesEncryptor::new(password, Aes256)
NewEncryptor(pw, salt) ==
    /\ aes.encryptor = None
    /\ aes' = [aes EXCEPT !.password = Some(pw),
                          !.encryptor = Some(AesEncryptorNew(pw, salt))]
    /\ UNCHANGED <<writer_vars, par, cloud>>

\* AesEncryptor::encrypt(data), in place
Encrypt(data) ==
    /\ aes.encryptor # None
    /\ aes.auth_code = None
    /\ aes.tried = None
    /\ Len(aes.plain) < MaxEncryptCalls
    /\ aes' = [aes EXCEPT !.plain = Append(@, data),
                          !.cipher = @ \o AesEncrypt(aes.encryptor[1], data)]
    /\ UNCHANGED <<writer_vars, par, cloud>>

\* AesEncryptor::finalize
Finalize ==
    /\ aes.encryptor # None
    /\ aes.auth_code = None
    /\ aes' = [aes EXCEPT !.auth_code = Some(AesFinalize(aes.encryptor[1]))]
    /\ UNCHANGED <<writer_vars, par, cloud>>

\* AesDecryptor::new(pw, Aes256, salt, password_verify) with the salt and the
\* verifier of the encryptor
NewDecryptor(pw) ==
    /\ aes.encryptor # None
    /\ aes.tried = None
    /\ LET made == AesDecryptorNew(pw, aes.encryptor[1].salt,
                                   aes.encryptor[1].password_verify)
       IN  aes' = [aes EXCEPT !.tried = Some(pw),
                              !.result = Some([ok |-> made.ok, err |-> made.err]),
                              !.decryptor = IF made.ok THEN Some(made.decryptor)
                                            ELSE None]
    /\ UNCHANGED <<writer_vars, par, cloud>>

\* AesDecryptor::decrypt on the whole ciphertext
Decrypt ==
    /\ aes.decryptor # None
    /\ aes.decrypted = None
    /\ aes' = [aes EXCEPT !.decrypted = Some(AesDecrypt(aes.decryptor[1], aes.cipher))]
    /\ UNCHANGED <<writer_vars, par, cloud>>

CryptoInit ==
    /\ Init
    /\ kind = "sync"
    /\ compression_method = "Deflate"

CryptoNext ==
    \/ \E pw \in CryptoPasswords, salt \in Salts : NewEncryptor(pw, salt)
    \/ \E data \in CryptoChunks : Encrypt(data)
    \/ Finalize
    \/ \E pw \in CryptoPasswords : NewDecryptor(pw)
    \/ Decrypt

CryptoSpec == CryptoInit /\ [][CryptoNext]_vars

\* ---------------------------------------------------- parallel compression
\* compress_entries_parallel(entries, config): one task per entry, spawned at
\* the call, and the caller's loop that receives, joins and sorts.  A task is
\* "spawned" until it holds a permit, then "compressing", then "sending" its
\* result, then "done"; a task that returned an error is "err_" and the kind.
\* arrival records the indices in the order the caller received them.

\* The files a ParallelEntry can name: data is None for a path that cannot be
\* read.
ParFiles ==
    {[name |-> <<97>>, data |-> Some(<<7>>)],
     [name |-> <<98>>, data |-> Some(<<7, 8>>)],
     [name |-> <<99>>, data |-> None]}

\* The entry lists given to a call.
ParInputs == UNION {[1..n -> ParFiles] : n \in 0..MaxParEntries}

\* The configurations given to a call.
ParConfigs ==
    [max_concurrent : 1..MaxPermits, compression_method : {"Deflate", "Zstd"}]

\* compress_file_deflate(path, level): the file read whole, its length, its
\* CRC and the complete DEFLATE stream, at the one level of the call.
compress_file_deflate(file) ==
    IF file.data = None
    THEN [ok |-> FALSE, err |-> "Io", compressed |-> <<>>,
          uncompressed_size |-> 0, crc32 |-> 0]
    ELSE [ok |-> TRUE, err |-> "None",
          compressed |-> DeflateEncode(file.data[1]) \o EncoderFinish(8),
          uncompressed_size |-> Len(file.data[1]),
          crc32 |-> Crc32Of(file.data[1])]

\* A semaphore acquire that never waits.
SemaphoreAcquireUnbounded(permits) == [ok |-> TRUE, permits |-> permits - 1]

\* semaphore.acquire().await: completes only when a permit is available.
SemaphoreAcquire(permits) == [ok |-> permits > 0, permits |-> permits - 1]

\* A permit that is not given back when its task ends.
SemaphoreReleaseLost(permits) == permits

\* The drop of _permit when a task returns: the permit goes back.
SemaphoreRelease(permits) == permits + 1

\* A message that carries no index.
TaggedResultWithoutIndex(index, result) == <<0, result>>

\* The message a task sends: (index, result).
TaggedResult(index, result) == <<index, result>>

\* A collection that returns the results in the order they arrived.
SortByIndexArrivalOrder(results) == results

RECURSIVE SortByIndex(_)
\* results.sort_by_key(|(index, _)| *index): a stable sort by the index.
SortByIndex(results) ==
    IF results = <<>> THEN <<>>
    ELSE LET head == results[1]
             rest == SortByIndex(Tail(results))
         IN  SelectSeq(rest, LAMBDA r : r[1] < head[1])
             \o <<head>>
             \o SelectSeq(rest, LAMBDA r : r[1] >= head[1])

\* The state of a call that has just spawned its tasks.
ParSpawned(entry_list, config, previous) ==
    [called |-> TRUE, entries |-> entry_list,
     max_concurrent |-> config.max_concurrent,
     compression_method |-> config.compression_method,
     permits |-> config.max_concurrent,
     task |-> [i \in 1..Len(entry_list) |-> "spawned"],
     held |-> [i \in 1..Len(entry_list) |-> None],
     channel |-> <<>>, results |-> <<>>, arrival |-> <<>>,
     returned |-> None, previous |-> previous]

\* compress_entries_parallel(entries, config) up to the spawning of the tasks
CompressEntriesParallel(entry_list, config) ==
    /\ ~par.called
    /\ par' = ParSpawned(entry_list, config, None)
    /\ UNCHANGED <<writer_vars, aes, cloud>>

\* A second call with the same entries and compression method, after the
\* first has returned; the first call's max_concurrent and result are kept.
CompressEntriesParallelAgain(max_concurrent) ==
    /\ par.called
    /\ par.returned # None
    /\ par.previous = None
    /\ par' = ParSpawned(par.entries,
                         [max_concurrent |-> max_concurrent,
                          compression_method |-> par.compression_method],
                         Some([max_concurrent |-> par.max_concurrent,
                               returned |-> par.returned[1]]))
    /\ UNCHANGED <<writer_vars, aes, cloud>>

\* Task i takes a permit.
TaskAcquire(i) ==
    /\ par.called
    /\ i \in 1..Len(par.entries)
    /\ par.task[i] = "spawned"
    /\ LET acquired == SemaphoreAcquire(par.permits)
       IN  /\ acquired.ok
           /\ par' = [par EXCEPT !.permits = acquired.permits,
                                 !.task[i] = "compressing"]
    /\ UNCHANGED <<writer_vars, aes, cloud>>

\* Task i compresses its file, or returns an error and drops its permit.
TaskCompress(i) ==
    /\ par.called
    /\ i \in 1..Len(par.entries)
    /\ par.task[i] = "compressing"
    /\ LET done == compress_file_deflate(par.entries[i])
       IN  IF par.compression_method # "Deflate"
           THEN par' = [par EXCEPT !.task[i] = "err_InvalidFormat",
                                   !.permits = SemaphoreRelease(@)]
           ELSE IF ~done.ok
           THEN par' = [par EXCEPT !.task[i] = "err_Io",
                                   !.permits = SemaphoreRelease(@)]
           ELSE par' = [par EXCEPT
                   !.task[i] = "sending",
                   !.held[i] = Some(TaggedResult(i - 1,
                       [name |-> par.entries[i].name,
                        data |-> done.compressed,
                        uncompressed_size |-> done.uncompressed_size,
                        crc32 |-> done.crc32]))]
    /\ UNCHANGED <<writer_vars, aes, cloud>>

\* Task i sends its result on the channel of capacity max_concurrent and
\* ends, which drops its permit.
TaskSend(i) ==
    /\ par.called
    /\ i \in 1..Len(par.entries)
    /\ par.task[i] = "sending"
    /\ Len(par.channel) < par.max_concurrent
    /\ par' = [par EXCEPT !.channel = Append(@, par.held[i][1]),
                          !.held[i] = None,
                          !.task[i] = "done",
                          !.permits = SemaphoreRelease(@)]
    /\ UNCHANGED <<writer_vars, aes, cloud>>

\* rx.recv() returned a message, which the caller pushes on results.
CollectorRecv ==
    /\ par.called
    /\ par.returned = None
    /\ par.channel # <<>>
    /\ par' = [par EXCEPT !.results = Append(@, Head(par.channel)),
                          !.arrival = Append(@, Head(par.channel)[1]),
                          !.channel = Tail(@)]
    /\ UNCHANGED <<writer_vars, aes, cloud>>

\* The tasks that returned an error.
ParFailed == {i \in 1..Len(par.entries) : par.task[i] \in {"err_Io", "err_InvalidFormat"}}

\* rx.recv() returned None because every sender is gone; the caller joins
\* the handles in order, returns the first error, and otherwise sorts the
\* results and returns the entries.
CollectorReturn ==
    /\ par.called
    /\ par.returned = None
    /\ par.channel = <<>>
    /\ \A i \in 1..Len(par.entries) : par.task[i] \in {"done", "err_Io", "err_InvalidFormat"}
    /\ LET first == CHOOSE i \in ParFailed : \A j \in ParFailed : i <= j
           sorted == SortByIndex(par.results)
       IN  par' = [par EXCEPT
               !.results = <<>>,
               !.returned =
                   IF ParFailed # {}
                   THEN Some([ok |-> FALSE,
                              err |-> IF par.task[first] = "err_Io" THEN "Io"
                                      ELSE "InvalidFormat",
                              entries |-> <<>>])
                   ELSE Some([ok |-> TRUE, err |-> "None",
                              entries |-> [k \in 1..Len(sorted) |-> sorted[k][2]]])]
    /\ UNCHANGED <<writer_vars, aes, cloud>>

ParInit ==
    /\ Init
    /\ kind = "sync"
    /\ compression_method = "Deflate"

ParNext ==
    \/ \E entry_list \in ParInputs, config \in ParConfigs :
          CompressEntriesParallel(entry_list, config)
    \/ \E max_concurrent \in 1..MaxPermits : CompressEntriesParallelAgain(max_concurrent)
    \/ \E i \in 1..MaxParEntries : TaskAcquire(i)
    \/ \E i \in 1..MaxParEntries : TaskCompress(i)
    \/ \E i \in 1..MaxParEntries : TaskSend(i)
    \/ CollectorRecv
    \/ CollectorReturn

ParSpec == ParInit /\ [][ParNext]_vars

\* The tokio runtime polls every spawned task that can make a step, and the
\* caller's loop, again and again: no step that stays possible is put off
\* for ever.
ParFairness ==
    /\ \A i \in 1..MaxParEntries :
          /\ WF_vars(TaskAcquire(i))
          /\ WF_vars(TaskCompress(i))
          /\ WF_vars(TaskSend(i))
    /\ WF_vars(CollectorRecv)
    /\ WF_vars(CollectorReturn)

ParLiveSpec == ParInit /\ [][ParNext]_vars /\ ParFairness

\* ------------------------------------------------------------ cloud writers
\* S3ZipWriter and GCSZipWriter with their upload_worker.  channel is the
\* unbounded command channel; the worker is "running" until its function
\* returns, then "done" or "failed", and a worker that has returned has
\* dropped the receiver, so a later send fails.  Ghosts: sent lists the
\* commands whose send succeeded, submitted sums the lengths of all buffers
\* given to poll_write, accepted those of the calls that returned Ok,
\* written is the concatenation of the buffers of the calls that returned Ok,
\* and remote lists the requests the store answered with success.

\* Buffers given to poll_write.
CloudBuffers == {<<1>>, <<2, 3>>}

\* The ETag the store returns for a part.
ETag(data) == Crc32Of(data)

\* A position that a write leaves where it was.
PositionAfterWriteUnchanged(pos, buf) == pos

\* poll_write: self.position += buf.len()
PositionAfterWrite(pos, buf) == pos + Len(buf)

\* poll_shutdown: the command is sent only if !self.shutdown_initiated
ShutdownSends(shutdown_initiated) == ~shutdown_initiated

\* A final part that takes the number of the last uploaded part.
FinalPartNumberRepeated(parts) == Len(parts)

\* upload_worker (S3), Complete: let part_number = parts.len() + 1
FinalPartNumber(parts) == Len(parts) + 1

\* A part that is due only when the buffer is longer than part_size.
PartDueAbove(buffer) == Len(buffer) > PartSize

\* poll_write: if self.buffer.len() >= self.part_size
PartDue(buffer) == Len(buffer) >= PartSize

\* A shutdown that reports Ok whatever the upload task returned.
TaskResultDiscarded(worker) == [ok |-> TRUE, err |-> "None"]

\* poll_shutdown: what it makes of the result of the finished upload task.
TaskResult(worker) ==
    IF worker = "done" THEN [ok |-> TRUE, err |-> "None"]
    ELSE [ok |-> FALSE, err |-> "UploadFailed"]

\* A worker that opens a multipart upload before every part.
NeedsCreateAlways(upload_id) == TRUE

\* upload_worker (S3): if upload_id.is_none()
NeedsCreate(upload_id) == upload_id = None

\* upload_tx.send(command): fails when the receiver is gone.
ReceiverOpen == cloud.worker = "running"

\* S3ZipWriterBuilder::build, GCSZipWriterBuilder::build
Build(provider) ==
    /\ cloud.provider = "none"
    /\ cloud' = [CloudIdle EXCEPT !.provider = provider, !.worker = "running"]
    /\ UNCHANGED <<writer_vars, aes, par>>

\* S3ZipWriter::poll_write, GCSZipWriter::poll_write
PollWrite(buf) ==
    /\ cloud.provider # "none"
    /\ cloud.calls < MaxCloudCalls
    /\ LET buffer == cloud.buffer \o buf
           flush == PartDue(buffer)
           current_part_number ==
               IF flush /\ cloud.provider = "s3"
               THEN cloud.current_part_number + 1 ELSE cloud.current_part_number
           command == [cmd |-> "UploadPart",
                       part_number |-> current_part_number,
                       data |-> Some(buffer)]
           sent_ok == ~flush \/ ReceiverOpen
       IN  cloud' = [cloud EXCEPT
               !.buffer = IF flush THEN <<>> ELSE buffer,
               !.position = PositionAfterWrite(cloud.position, buf),
               !.current_part_number = current_part_number,
               !.channel = IF flush /\ ReceiverOpen THEN Append(@, command) ELSE @,
               !.sent = IF flush /\ ReceiverOpen THEN Append(@, command) ELSE @,
               !.submitted = @ + Len(buf),
               !.accepted = IF sent_ok THEN @ + Len(buf) ELSE @,
               !.written = IF sent_ok THEN @ \o buf ELSE @,
               !.calls = @ + 1,
               !.last = Some([op |-> "write", ok |-> sent_ok,
                              err |-> IF sent_ok THEN "None" ELSE "BrokenPipe",
                              value |-> IF sent_ok THEN Len(buf) ELSE 0])]
    /\ UNCHANGED <<writer_vars, aes, par>>

\* S3ZipWriter::poll_shutdown, GCSZipWriter::poll_shutdown; the JoinHandle
\* is not polled again once it has returned Ready.
PollShutdown ==
    /\ cloud.provider # "none"
    /\ ~cloud.joined
    /\ cloud.calls < MaxCloudCalls
    /\ LET sends == ShutdownSends(cloud.shutdown_initiated)
           command == [cmd |-> "Complete", part_number |-> 0,
                       data |-> IF cloud.buffer # <<>> THEN Some(cloud.buffer)
                                ELSE None]
           send_failed == sends /\ ~ReceiverOpen
       IN  cloud' = [cloud EXCEPT
               !.shutdown_initiated = TRUE,
               !.buffer = IF sends THEN <<>> ELSE @,
               !.channel = IF sends /\ ReceiverOpen THEN Append(@, command) ELSE @,
               !.sent = IF sends /\ ReceiverOpen THEN Append(@, command) ELSE @,
               !.joined = ~send_failed /\ cloud.worker # "running",
               !.calls = @ + 1,
               !.last = Some(
                   IF send_failed
                   THEN [op |-> "shutdown", ok |-> FALSE, err |-> "BrokenPipe", value |-> 0]
                   ELSE IF cloud.worker = "running"
                   THEN [op |-> "shutdown", ok |-> FALSE, err |-> "Pending", value |-> 0]
                   ELSE [op |-> "shutdown", ok |-> TaskResult(cloud.worker).ok,
                         err |-> TaskResult(cloud.worker).err, value |-> 0])]
    /\ UNCHANGED <<writer_vars, aes, par>>

\* impl AsyncSeek: start_seek(req), then poll_complete reports the position.
CloudSeek(req) ==
    /\ cloud.provider # "none"
    /\ LET sought == SinkSeek(cloud.provider, cloud.position, 0, req)
       IN  cloud' = [cloud EXCEPT
               !.position = sought.position,
               !.last = Some([op |-> "seek", ok |-> sought.ok,
                              err |-> IF sought.ok THEN "None" ELSE "Unsupported",
                              value |-> sought.position])]
    /\ UNCHANGED <<writer_vars, aes, par>>

\* upload_worker of s3.rs takes the next command; remote_ok is whether the
\* store answers every request of this command with success.
S3WorkerStep(remote_ok) ==
    /\ cloud.provider = "s3"
    /\ cloud.worker = "running"
    /\ cloud.channel # <<>>
    /\ LET command == Head(cloud.channel)
           has_data == command.data # None /\ command.data[1] # <<>>
           requests == has_data \/ cloud.upload_id # None
           part_number == IF command.cmd = "UploadPart" THEN command.part_number
                          ELSE FinalPartNumber(cloud.parts)
           parts == IF has_data
                    THEN Append(cloud.parts,
                                [part_number |-> part_number,
                                 e_tag |-> ETag(command.data[1])])
                    ELSE cloud.parts
           created == IF has_data /\ NeedsCreate(cloud.upload_id)
                      THEN <<[req |-> "create_multipart_upload", part_number |-> 0,
                              body |-> <<>>]>>
                      ELSE <<>>
           uploaded == IF has_data
                       THEN <<[req |-> "upload_part", part_number |-> part_number,
                               body |-> command.data[1]]>>
                       ELSE <<>>
           completing == IF command.cmd = "Complete" /\ requests
                         THEN <<[req |-> "complete_multipart_upload",
                                 part_number |-> 0, body |-> <<>>]>>
                         ELSE <<>>
       IN  /\ requests \/ remote_ok
           /\ IF requests /\ ~remote_ok
              THEN cloud' = [cloud EXCEPT !.worker = "failed", !.channel = <<>>]
              ELSE IF command.cmd = "UploadPart"
              THEN cloud' = [cloud EXCEPT !.upload_id = Some(1),
                                          !.parts = parts,
                                          !.remote = @ \o created \o uploaded,
                                          !.channel = Tail(@)]
              ELSE cloud' = [cloud EXCEPT
                      !.upload_id = IF has_data THEN Some(1) ELSE @,
                      !.parts = parts,
                      !.completed = IF has_data \/ cloud.upload_id # None
                                    THEN Some(parts) ELSE @,
                      !.remote = @ \o created \o uploaded \o completing,
                      !.worker = "done",
                      !.channel = <<>>]
    /\ UNCHANGED <<writer_vars, aes, par>>

\* upload_worker of gcs.rs takes the next command; only Finalize makes a
\* request to the store.
GCSWorkerStep(remote_ok) ==
    /\ cloud.provider = "gcs"
    /\ cloud.worker = "running"
    /\ cloud.channel # <<>>
    /\ LET command == Head(cloud.channel)
           accumulated_data ==
               IF command.data # None THEN cloud.accumulated_data \o command.data[1]
               ELSE cloud.accumulated_data
       IN  IF command.cmd = "UploadPart"
           THEN /\ remote_ok
                /\ cloud' = [cloud EXCEPT !.accumulated_data = accumulated_data,
                                          !.channel = Tail(@)]
           ELSE IF remote_ok
           THEN cloud' = [cloud EXCEPT !.accumulated_data = accumulated_data,
                                       !.completed = Some(accumulated_data),
                                       !.worker = "done",
                                       !.channel = <<>>]
           ELSE cloud' = [cloud EXCEPT !.worker = "failed", !.channel = <<>>]
    /\ UNCHANGED <<writer_vars, aes, par>>

CloudInit ==
    /\ Init
    /\ kind = "async"
    /\ compression_method = "Deflate"
    /\ sink_kind = "s3"

CloudNext ==
    \/ \E provider \in {"s3", "gcs"} : Build(provider)
    \/ \E buf \in CloudBuffers : PollWrite(buf)
    \/ PollShutdown
    \/ \E req \in {Current0, [whence |-> "Start", off |-> 0]} : CloudSeek(req)
    \/ \E remote_ok \in BOOLEAN : S3WorkerStep(remote_ok)
    \/ \E remote_ok \in BOOLEAN : GCSWorkerStep(remote_ok)

CloudSpec == CloudInit /\ [][CloudNext]_vars

\* ------------------------------------------------------------------ reader
\* The readers work on the bytes of a finished archive; positions are
\* zero-based file offsets.
\* read_exact(n) at pos succeeds when the file holds n bytes there.
CanRead(bytes, pos, n) == pos + n <= Len(bytes)

\* The n bytes at offset pos.
ReadAt(bytes, pos, n) == SubSeq(bytes, pos + 1, pos + n)

\* read_u16_le / read_u32_le / an 8-byte little-endian read at pos.
ReadLe(bytes, pos, n) == from_le_bytes(ReadAt(bytes, pos, n))

\* The scans look at the last 65557 bytes before a position.
SearchWindow == 65557

\* Start of a backward scan that ends at pos (saturating_sub).
SearchStart(pos) == IF pos > SearchWindow THEN pos - SearchWindow ELSE 0

\* Offsets at or after from where the four bytes sig stand in the file.
SigOffsets(bytes, sig, from) ==
    {i \in from..(Len(bytes) - 4) : ReadAt(bytes, i, 4) = sig}

\* The largest member of a non-empty set of offsets.
Last(offsets) == CHOOSE i \in offsets : \A j \in offsets : j <= i

\* StreamingZipReader::find_eocd
find_eocd(bytes) ==
    LET found == SigOffsets(bytes, EocdSig, SearchStart(Len(bytes)))
    IN  IF found = {} THEN [ok |-> FALSE, err |-> "InvalidFormat", offset |-> 0]
        ELSE [ok |-> TRUE, err |-> "None", offset |-> Last(found)]

\* StreamingZipReader::read_zip64_eocd
read_zip64_eocd(bytes, eocd_offset) ==
    LET fail(e) == [ok |-> FALSE, err |-> e, total_entries |-> 0, cd_size |-> 0,
                    cd_offset |-> 0]
        found == SigOffsets(bytes, Zip64LocatorSig, SearchStart(eocd_offset))
        locator_pos == Last(found)
        zip64_eocd_offset == ReadLe(bytes, locator_pos + 8, 8)
    IN  IF found = {} THEN fail("InvalidFormat")
        ELSE IF ~CanRead(bytes, locator_pos + 8, 8) THEN fail("Panic")
        ELSE IF ~CanRead(bytes, zip64_eocd_offset, 4) THEN fail("Io")
        ELSE IF ReadAt(bytes, zip64_eocd_offset, 4) # Zip64EocdSig
        THEN fail("InvalidFormat")
        ELSE IF ~CanRead(bytes, zip64_eocd_offset, 56) THEN fail("Io")
        ELSE [ok |-> TRUE, err |-> "None",
              total_entries |-> ReadLe(bytes, zip64_eocd_offset + 24, 8),
              cd_size |-> ReadLe(bytes, zip64_eocd_offset + 40, 8),
              cd_offset |-> ReadLe(bytes, zip64_eocd_offset + 48, 8)]

RECURSIVE ParseZip64Extra(_, _, _)
\* The extra-field loop of read_central_directory: walks the (id, len, data)
\* fields of extra_buf from index i and, at the first field with id 0x0001,
\* takes an 8-byte value for every field of e32 that holds the placeholder.
ParseZip64Extra(extra_buf, i, e32) ==
    IF i + 4 > Len(extra_buf) THEN e32
    ELSE LET id == ReadLe(extra_buf, i, 2)
             data_len == ReadLe(extra_buf, i + 2, 2)
             at == i + 4
             has_u == e32.uncompressed_size = U32_MAX /\ 8 <= data_len
             cursor_u == IF has_u THEN 8 ELSE 0
             has_c == e32.compressed_size = U32_MAX /\ cursor_u + 8 <= data_len
             cursor_c == IF has_c THEN cursor_u + 8 ELSE cursor_u
             has_o == e32.offset = U32_MAX /\ cursor_c + 8 <= data_len
         IN  IF at + data_len > Len(extra_buf) THEN e32
             ELSE IF id = 1
             THEN [uncompressed_size |->
                      IF has_u THEN ReadLe(extra_buf, at, 8)
                      ELSE e32.uncompressed_size,
                   compressed_size |->
                      IF has_c THEN ReadLe(extra_buf, at + cursor_u, 8)
                      ELSE e32.compressed_size,
                   offset |->
                      IF has_o THEN ReadLe(extra_buf, at + cursor_c, 8)
                      ELSE e32.offset]
             ELSE ParseZip64Extra(extra_buf, at + data_len, e32)

RECURSIVE ReadCentralDirectoryEntries(_, _, _, _)
\* The record loop of read_central_directory: up to remaining records from
\* pos, appended to acc; a record without the signature ends the loop.
ReadCentralDirectoryEntries(bytes, pos, remaining, acc) ==
    IF remaining = 0 THEN [ok |-> TRUE, err |-> "None", entries |-> acc]
    ELSE IF ~CanRead(bytes, pos, 4)
    THEN [ok |-> FALSE, err |-> "Io", entries |-> <<>>]
    ELSE IF ReadAt(bytes, pos, 4) # CentralDirectorySig
    THEN [ok |-> TRUE, err |-> "None", entries |-> acc]
    ELSE IF ~CanRead(bytes, pos, 46)
    THEN [ok |-> FALSE, err |-> "Io", entries |-> <<>>]
    ELSE LET method == ReadLe(bytes, pos + 10, 2)
             filename_len == ReadLe(bytes, pos + 28, 2)
             extra_len == ReadLe(bytes, pos + 30, 2)
             comment_len == ReadLe(bytes, pos + 32, 2)
             e32 == [compressed_size |-> ReadLe(bytes, pos + 20, 4),
                     uncompressed_size |-> ReadLe(bytes, pos + 24, 4),
                     offset |-> ReadLe(bytes, pos + 42, 4)]
             extra_buf == ReadAt(bytes, pos + 46 + filename_len, extra_len)
             e64 == IF e32.compressed_size = U32_MAX
                       \/ e32.uncompressed_size = U32_MAX
                       \/ e32.offset = U32_MAX
                    THEN ParseZip64Extra(extra_buf, 0, e32) ELSE e32
         IN  IF ~CanRead(bytes, pos + 46, filename_len + extra_len)
             THEN [ok |-> FALSE, err |-> "Io", entries |-> <<>>]
             ELSE ReadCentralDirectoryEntries(bytes,
                     pos + 46 + filename_len + extra_len + comment_len,
                     remaining - 1,
                     Append(acc,
                        [name |-> ReadAt(bytes, pos + 46, filename_len),
                         compressed_size |-> e64.compressed_size,
                         uncompressed_size |-> e64.uncompressed_size,
                         compression_method |-> method,
                         offset |-> e64.offset]))

\* StreamingZipReader::read_central_directory, the whole of open()
read_central_directory(bytes) ==
    LET fail(e) == [ok |-> FALSE, err |-> e, entries |-> <<>>]
        eocd == find_eocd(bytes)
        eocd_offset == eocd.offset
        total_entries_16 == ReadLe(bytes, eocd_offset + 10, 2)
        cd_size_32 == ReadLe(bytes, eocd_offset + 12, 4)
        cd_offset_32 == ReadLe(bytes, eocd_offset + 16, 4)
        marked == \/ total_entries_16 = U16_MAX
                  \/ cd_size_32 = U32_MAX
                  \/ cd_offset_32 = U32_MAX
        zip64 == read_zip64_eocd(bytes, eocd_offset)
    IN  IF ~eocd.ok THEN fail(eocd.err)
        ELSE IF ~CanRead(bytes, eocd_offset, 20) THEN fail("Io")
        ELSE IF marked /\ ~zip64.ok THEN fail(zip64.err)
        ELSE ReadCentralDirectoryEntries(bytes,
                IF marked THEN zip64.cd_offset ELSE cd_offset_32,
                IF marked THEN zip64.total_entries ELSE total_entries_16,
                <<>>)

\* The decoder the readers pick for a compression method; Stored hands the
\* bytes through.
Decode(method, compressed_data) ==
    IF method = 8
    THEN LET d == DeflateDecode(compressed_data)
         IN  [ok |-> d.ok, err |-> IF d.ok THEN "None" ELSE "Io", data |-> d.data]
    ELSE IF method = 0
    THEN [ok |-> TRUE, err |-> "None", data |-> compressed_data]
    ELSE IF method = 93
    THEN LET d == ZstdDecode(compressed_data)
         IN  [ok |-> d.ok, err |-> IF d.ok THEN "None" ELSE "Io", data |-> d.data]
    ELSE [ok |-> FALSE, err |-> "UnsupportedCompression", data |-> <<>>]

\* StreamingZipReader::read_entry
read_entry(bytes, entry) ==
    LET fail(e) == [ok |-> FALSE, err |-> e, data |-> <<>>]
        filename_len == ReadLe(bytes, entry.offset + 26, 2)
        extra_len == ReadLe(bytes, entry.offset + 28, 2)
        data_at == entry.offset + 30 + filename_len + extra_len
    IN  IF ~CanRead(bytes, entry.offset, 4) THEN fail("Io")
        ELSE IF ReadAt(bytes, entry.offset, 4) # LocalFileHeaderSig
        THEN fail("InvalidFormat")
        ELSE IF ~CanRead(bytes, entry.offset, 30) THEN fail("Io")
        ELSE IF ~CanRead(bytes, data_at, entry.compressed_size) THEN fail("Io")
        ELSE Decode(entry.compression_method,
                    ReadAt(bytes, data_at, entry.compressed_size))

\* StreamingZipReader::read_entry_streaming, read to its end: the decoder
\* sits on take(compressed_size), which yields what the file still holds.
read_entry_streaming(bytes, entry) ==
    LET fail(e) == [ok |-> FALSE, err |-> e, data |-> <<>>]
        filename_len == ReadLe(bytes, entry.offset + 26, 2)
        extra_len == ReadLe(bytes, entry.offset + 28, 2)
        data_at == entry.offset + 30 + filename_len + extra_len
        limit == IF CanRead(bytes, data_at, entry.compressed_size)
                 THEN entry.compressed_size
                 ELSE IF data_at < Len(bytes) THEN Len(bytes) - data_at ELSE 0
    IN  IF ~CanRead(bytes, entry.offset, 4) THEN fail("Io")
        ELSE IF ReadAt(bytes, entry.offset, 4) # LocalFileHeaderSig
        THEN fail("InvalidFormat")
        ELSE IF ~CanRead(bytes, entry.offset, 30) THEN fail("Io")
        ELSE Decode(entry.compression_method, ReadAt(bytes, data_at, limit))

\* StreamingZipReader::find_entry: the index in ents (the entry list) of the first entry
\* called name, 0 when there is none.
find_entry(ents, name) ==
    LET hits == {i \in 1..Len(ents) : ents[i].name = name}
    IN  IF hits = {} THEN 0 ELSE CHOOSE i \in hits : \A j \in hits : i <= j

\* StreamingZipReader::read_entry_by_name
read_entry_by_name(bytes, ents, name) ==
    IF find_entry(ents, name) = 0
    THEN [ok |-> FALSE, err |-> "EntryNotFound", data |-> <<>>]
    ELSE read_entry(bytes, ents[find_entry(ents, name)])

\* AsyncStreamingZipReader::new and read_entry follow the same steps on an
\* AsyncRead + AsyncSeek source.
async_read_central_directory(bytes) == read_central_directory(bytes)

async_read_entry(bytes, entry) == read_entry(bytes, entry)

async_read_entry_streaming(bytes, entry) == read_entry_streaming(bytes, entry)

\* open() of the reader that matches the writer that produced the archive.
Opened == IF kind = "sync" THEN read_central_directory(output)
          ELSE async_read_central_directory(output)

\* read_entry() of that reader.
ReadBack(entry) == IF kind = "sync" THEN read_entry(output, entry)
                   ELSE async_read_entry(output, entry)

\* read_entry_streaming() of that reader, read to its end.
ReadBackStreaming(entry) ==
    IF kind = "sync" THEN read_entry_streaming(output, entry)
    ELSE async_read_entry_streaming(output, entry)

\* ------------------------------------------------------------- properties
RECURSIVE Flatten(_)
\* The concatenation of a sequence of chunks, in order.
Flatten(chunks) ==
    IF chunks = <<>> THEN <<>> ELSE chunks[1] \o Flatten(Tail(chunks))

\* The start_entry calls that returned Ok, in call order, each with the
\* chunks write_data was given for it.
Started == SelectSeq(history, LAMBDA h : h.ok)

\* The names of a sequence of records, in order.
NamesOf(records) == [i \in 1..Len(records) |-> records[i].name]

\* C1: after a successful finish of the blocking writer, for every entry i
\* that was started, the reader opens the archive and lists entry i under
\* name_i with uncompressed_size = len(bytes_i), and read_entry returns
\* exactly bytes_i, whatever the compression method and with or without a
\* password.
C1_RoundTrip ==
    (state = "finished" /\ kind = "sync") =>
        \A i \in 1..Len(Started) :
            /\ Opened.ok
            /\ i <= Len(Opened.entries)
            /\ Opened.entries[i].name = Started[i].name
            /\ Opened.entries[i].uncompressed_size = Len(Flatten(Started[i].chunks))
            /\ ReadBack(Opened.entries[i]).ok
            /\ ReadBack(Opened.entries[i]).data = Flatten(Started[i].chunks)

\* C2: whenever finish returned Ok, the reader opens the produced bytes and
\* entries() lists exactly one entry per successful start_entry call, with
\* the same names in the order the entries were started.
C2_ReaderListsEveryEntry ==
    state = "finished" =>
        /\ Opened.ok
        /\ NamesOf(Opened.entries) = NamesOf(Started)

C4_CompressedSizeIsBytesOnSink ==
    \A i \in 1..Len(entries) :
        entries[i].compressed_size = Started[i].data_end - Started[i].data_start

\* C5: the local_header_offset values of the entry list are strictly
\* increasing in list order, and the open entry's offset is greater than all
\* of them.
C5_OffsetsStrictlyIncreasing ==
    /\ \A i, j \in 1..Len(entries) :
          i < j => entries[i].local_header_offset < entries[j].local_header_offset
    /\ current_entry # None =>
          \A i \in 1..Len(entries) :
             entries[i].local_header_offset < current_entry[1].local_header_offset

\* Two entries are sealed and a third is open.
C5_Witness == Len(entries) >= 2 /\ current_entry # None

\* The start_entry calls whose entry has not been sealed yet.
Unsealed == {i \in 1..Len(history) : history[i].ok /\ history[i].data_end = -1}

\* C6: at most one entry is open at any time, and a start_entry call made
\* while an entry is open seals that entry first: its record is appended to
\* the entry list, and its residual bytes and data descriptor lie on the sink
\* before the first byte of the new local header.
C6_StartEntrySealsPredecessor ==
    [][/\ Cardinality(Unsealed) <= 1
       /\ (Unsealed # {}) <=> (current_entry # None)
       /\ (Len(history') > Len(history) /\ current_entry # None) =>
             LET sealed == history'[Len(history)]
                 new == history'[Len(history')]
             IN  /\ Len(entries') = Len(entries) + 1
                 /\ entries' = Append(entries, entries'[Len(entries')])
                 /\ entries'[Len(entries')].name = current_entry[1].name
                 /\ entries'[Len(entries')].local_header_offset
                       = current_entry[1].local_header_offset
                 /\ sealed.data_end >= position + Len(current_entry[1].buffer)
                 /\ ReadAt(output', sealed.data_end, 4) = DataDescriptorSig
                 /\ new.local_header_offset >= sealed.data_end + 16
                 /\ ReadAt(output', new.local_header_offset, 4) = LocalFileHeaderSig
                 /\ SubSeq(output', 1, Len(output)) = output
                 /\ Cardinality(Unsealed') <= 1]_vars

\* start_entry was called while an entry with buffered bytes was open.
C6_Witness ==
    /\ Len(entries) >= 1
    /\ current_entry # None
    /\ Started[Len(entries)].chunks # <<>>

\* C7: for every sealed entry, uncompressed_size is the total length of the
\* chunks given to write_data for it and crc32 is the CRC of their
\* concatenation, the plaintext, encrypted or not.
C7_SizeAndCrcOfPlaintext ==
    \A i \in 1..Len(entries) :
        /\ entries[i].uncompressed_size = Len(Flatten(Started[i].chunks))
        /\ entries[i].crc32 = Crc32Of(Flatten(Started[i].chunks))

\* An encrypted entry that got two non-empty chunks has been sealed.
C7_Witness ==
    \E i \in 1..Len(entries) :
        /\ Started[i].encrypted
        /\ Len(Started[i].chunks) = 2
        /\ \A k \in 1..2 : Started[i].chunks[k] # <<>>

\* C8: the sink position never decreases: every step only appends to the
\* sink, the only seek the writer issues is Current(0), and the cloud
\* adapters answer every other seek request with an error and keep their
\* position.
C8_SinkNeverRewinds ==
    [][/\ position' >= position
       /\ Len(output') >= Len(output)
       /\ SubSeq(output', 1, Len(output)) = output
       /\ position' = Len(output')
       /\ seeks' \subseteq {Current0}
       /\ \A req \in SeekRequests \ {Current0} :
             /\ ~S3Seek(position', req).ok
             /\ S3Seek(position', req).position = position'
             /\ ~GCSSeek(position', req).ok
             /\ GCSSeek(position', req).position = position']_vars

\* A cloud sink took an archive with entries whose offsets the writer asked
\* the sink for.
C8_Witness ==
    /\ sink_kind \in {"s3", "gcs"}
    /\ state = "finished"
    /\ Len(entries) >= 2
    /\ seeks = {Current0}
    /\ position > 0

\* Position of the end-of-central-directory record: the last 22 bytes.
EocdAt == Len(output) - 22

\* finish found a count or a central-directory size or offset over its limit.
OverLimit ==
    /\ trailer # None
    /\ \/ Len(entries) > U16_MAX
       \/ trailer[1].central_dir_size > U32_MAX
       \/ trailer[1].central_dir_offset > U32_MAX

\* C9: when the entry count exceeds u16::MAX or the central directory's size
\* or offset exceeds u32::MAX, the bytes after the central directory are a
\* ZIP64 EOCD record, then a ZIP64 locator whose offset field is the position
\* of that record, then the classic EOCD with every over-limit field holding
\* its sentinel and every other field its value.
C9_Zip64EocdWhenOverLimit ==
    OverLimit =>
        LET n == Len(entries)
            cd_offset == trailer[1].central_dir_offset
            cd_size == trailer[1].central_dir_size
            record_at == cd_offset + cd_size
            locator_at == record_at + 56
        IN  /\ n > 0 => ReadAt(output, cd_offset, 4) = CentralDirectorySig
            /\ ReadAt(output, record_at, 4) = Zip64EocdSig
            /\ ReadAt(output, locator_at, 4) = Zip64LocatorSig
            /\ ReadLe(output, locator_at + 8, 8) = record_at
            /\ EocdAt = locator_at + 20
            /\ ReadAt(output, EocdAt, 4) = EocdSig
            /\ ReadLe(output, EocdAt + 8, 2) = (IF n > U16_MAX THEN U16_MAX ELSE n)
            /\ ReadLe(output, EocdAt + 10, 2) = (IF n > U16_MAX THEN U16_MAX ELSE n)
            /\ ReadLe(output, EocdAt + 12, 4)
                  = (IF cd_size > U32_MAX THEN U32_MAX ELSE cd_size)
            /\ ReadLe(output, EocdAt + 16, 4)
                  = (IF cd_offset > U32_MAX THEN U32_MAX ELSE cd_offset)

\* finish ran with more than u16::MAX entries and a central directory that
\* starts past u32::MAX.
C9_Witness ==
    /\ state = "finished"
    /\ Len(entries) > U16_MAX
    /\ trailer[1].central_dir_offset > U32_MAX

RECURSIVE CdRecordAt(_, _, _)
\* Position of the k-th central-directory record when the first is at pos.
CdRecordAt(bytes, pos, k) ==
    IF k = 1 THEN pos
    ELSE CdRecordAt(bytes,
                    pos + 46 + ReadLe(bytes, pos + 28, 2) + ReadLe(bytes, pos + 30, 2)
                        + ReadLe(bytes, pos + 32, 2),
                    k - 1)

\* The archive holds no ZIP64 EOCD record, no ZIP64 locator and no ZIP64
\* extra field: the classic EOCD follows the central directory directly and
\* no central-directory record carries an extra field with id 0x0001.
NoZip64Structures ==
    LET cd_offset == trailer[1].central_dir_offset
    IN  /\ ReadAt(output, EocdAt, 4) = EocdSig
        /\ cd_offset + trailer[1].central_dir_size = EocdAt
        /\ SigOffsets(output, Zip64EocdSig, cd_offset) = {}
        /\ SigOffsets(output, Zip64LocatorSig, cd_offset) = {}
        /\ \A k \in 1..Len(entries) :
              LET at == CdRecordAt(output, cd_offset, k)
                  filename_len == ReadLe(output, at + 28, 2)
                  extra_len == ReadLe(output, at + 30, 2)
              IN  /\ ReadAt(output, at, 4) = CentralDirectorySig
                  /\ extra_len >= 4 => ReadLe(output, at + 46 + filename_len, 2) # 1

\* No entry-count field holds 0xFFFF and no size or offset field holds
\* 0xFFFFFFFF, in the classic EOCD, the central-directory records and the
\* data descriptors.
NoSentinelValues ==
    /\ ReadLe(output, EocdAt + 8, 2) # U16_MAX
    /\ ReadLe(output, EocdAt + 10, 2) # U16_MAX
    /\ ReadLe(output, EocdAt + 12, 4) # U32_MAX
    /\ ReadLe(output, EocdAt + 16, 4) # U32_MAX
    /\ \A k \in 1..Len(entries) :
          LET at == CdRecordAt(output, trailer[1].central_dir_offset, k)
              descriptor_at == Started[k].data_end
          IN  /\ ReadLe(output, at + 20, 4) # U32_MAX
              /\ ReadLe(output, at + 24, 4) # U32_MAX
              /\ ReadLe(output, at + 42, 4) # U32_MAX
              /\ ReadLe(output, descriptor_at + 8, 4) # U32_MAX
              /\ ReadLe(output, descriptor_at + 12, 4) # U32_MAX

\* Every count, size and offset of the finished archive is at most limit16
\* (the count) or limit32 (the sizes and offsets).
WithinLimits(limit16, limit32) ==
    /\ Len(entries) <= limit16
    /\ trailer[1].central_dir_size <= limit32
    /\ trailer[1].central_dir_offset <= limit32
    /\ \A i \in 1..Len(entries) :
          /\ entries[i].compressed_size <= limit32
          /\ entries[i].uncompressed_size <= limit32
          /\ entries[i].local_header_offset <= limit32

\* C10 as stated: with the entry count at most u16::MAX and every size and
\* offset at most u32::MAX, limits included, the archive holds no ZIP64
\* structure and no classic field holds a sentinel value.
C10_NoZip64WithinLimits ==
    (state = "finished" /\ WithinLimits(U16_MAX, U32_MAX)) =>
        NoZip64Structures /\ NoSentinelValues

\* C10 amended: with the entry count below u16::MAX and every size and
\* offset below u32::MAX, the archive holds no ZIP64 structure and no classic
\* field holds a sentinel value.
C10_NoZip64BelowLimits ==
    (state = "finished" /\ WithinLimits(U16_MAX - 1, U32_MAX - 1)) =>
        NoZip64Structures /\ NoSentinelValues

\* An archive below every limit with an entry that holds data was finished.
C10_Witness ==
    /\ state = "finished"
    /\ WithinLimits(U16_MAX - 1, U32_MAX - 1)
    /\ \E i \in 1..Len(entries) : entries[i].uncompressed_size > 0

\* The k-th central-directory record of the sink as its fields stand on the
\* wire, next to the entry it was written for.
CdRecord(k) ==
    LET at == CdRecordAt(output, trailer[1].central_dir_offset, k)
        filename_len == ReadLe(output, at + 28, 2)
        extra_len == ReadLe(output, at + 30, 2)
    IN  [entry |-> entries[k],
         compressed_slot |-> ReadLe(output, at + 20, 4),
         uncompressed_slot |-> ReadLe(output, at + 24, 4),
         offset_slot |-> ReadLe(output, at + 42, 4),
         extra_len |-> extra_len,
         extra |-> ReadAt(output, at + 46 + filename_len, extra_len)]

\* The extra field of record r is a ZIP64 extra whose lengths match its bytes
\* and whose payload is the fields picked by u, c and o, eight bytes each, in
\* the order uncompressed, compressed, offset.
Zip64ExtraCarries(r, u, c, o) ==
    LET payload == (IF u THEN to_le_bytes(r.entry.uncompressed_size, 8) ELSE <<>>)
                   \o (IF c THEN to_le_bytes(r.entry.compressed_size, 8) ELSE <<>>)
                   \o (IF o THEN to_le_bytes(r.entry.local_header_offset, 8) ELSE <<>>)
    IN  /\ Len(r.extra) = r.extra_len
        /\ r.extra_len = 4 + Len(payload)
        /\ ReadLe(r.extra, 0, 2) = 1
        /\ ReadLe(r.extra, 2, 2) = Len(payload)
        /\ ReadAt(r.extra, 4, Len(payload)) = payload

DescriptorEnd(i) ==
    IF i < Len(Started) THEN Started[i + 1].local_header_offset
    ELSE trailer[1].central_dir_offset

\* C12: every data descriptor on the sink holds its two sizes in fields of
\* one width, 8 bytes each when a size of the entry exceeds u32::MAX and 4
\* bytes each otherwise, and the fields hold the sizes untruncated.
C12_DescriptorWidth ==
    \A i \in 1..Len(entries) :
        LET at == Started[i].data_end
            wide == \/ entries[i].compressed_size > U32_MAX
                    \/ entries[i].uncompressed_size > U32_MAX
            width == IF wide THEN 8 ELSE 4
        IN  /\ ReadAt(output, at, 4) = DataDescriptorSig
            /\ ReadLe(output, at + 4, 4) = entries[i].crc32
            /\ DescriptorEnd(i) - at = 8 + 2 * width
            /\ ReadLe(output, at + 8, width) = entries[i].compressed_size
            /\ ReadLe(output, at + 8 + width, width) = entries[i].uncompressed_size

\* An entry whose uncompressed size alone exceeds u32::MAX was sealed, and
\* so was one with both sizes within u32::MAX.
C12_Witness ==
    /\ \E i \in 1..Len(entries) :
          /\ entries[i].uncompressed_size > U32_MAX
          /\ entries[i].compressed_size <= U32_MAX
    /\ \E i \in 1..Len(entries) :
          /\ entries[i].uncompressed_size \in 1..U32_MAX
          /\ entries[i].compressed_size <= U32_MAX

\* A field of the k-th entry is carried as a sentinel with a ZIP64 extra.
Promoted(k) ==
    \/ entries[k].uncompressed_size > U32_MAX
    \/ entries[k].compressed_size > U32_MAX
    \/ entries[k].local_header_offset > U32_MAX

\* C13: of an archive finish wrote with a ZIP64 EOCD record, the reader
\* takes the entry count and the central-directory offset from that record,
\* and for every central-directory record with a promoted field the reader's
\* entry has the writer's 64-bit values of both sizes and of the offset.
C13_ReaderRecoversZip64 ==
    state = "finished" =>
        /\ trailer[1].need_zip64 =>
              /\ Opened.ok
              /\ Len(Opened.entries) = Len(entries)
        /\ Opened.ok =>
              \A k \in 1..Len(entries) :
                  Promoted(k) =>
                      /\ k <= Len(Opened.entries)
                      /\ Opened.entries[k].uncompressed_size = entries[k].uncompressed_size
                      /\ Opened.entries[k].compressed_size = entries[k].compressed_size
                      /\ Opened.entries[k].offset = entries[k].local_header_offset

C15_SinkFailureIsFatal ==
    sink_failed => (~last_result.ok /\ state # "finished")

\* C16: with the Stored method selected, start_entry returns Ok and opens
\* an entry with method code 0, and in the finished archive every entry has
\* method code 0 and reads back as the bytes it was given.
C16_StoreIsSupported ==
    compression_method = "Stored" =>
        /\ last_result.op = "start_entry" =>
              /\ last_result.ok
              /\ current_entry # None
              /\ current_entry[1].compression_method = 0
        /\ (state = "finished" /\ Opened.ok) =>
              /\ Len(Started) = Len(history)
              /\ \A i \in 1..Len(Started) :
                    /\ i <= Len(Opened.entries)
                    /\ Opened.entries[i].compression_method = 0
                    /\ ReadBack(Opened.entries[i]).ok
                    /\ ReadBack(Opened.entries[i]).data = Flatten(Started[i].chunks)

\* C17: every sealed entry that received no data (no write_data call, or
\* only empty chunks) is recorded with uncompressed_size 0 and the CRC of the
\* empty input, and in the finished archive the reader lists it with size 0
\* and reads zero bytes from it.
C17_EmptyEntryIsLegal ==
    \A i \in 1..Len(entries) :
        Flatten(Started[i].chunks) = <<>> =>
            /\ entries[i].uncompressed_size = 0
            /\ entries[i].crc32 = Crc32Of(<<>>)
            /\ state = "finished" =>
                  /\ Opened.ok
                  /\ i <= Len(Opened.entries)
                  /\ Opened.entries[i].uncompressed_size = 0
                  /\ ReadBack(Opened.entries[i]).ok
                  /\ ReadBack(Opened.entries[i]).data = <<>>

\* The two bytes a password derives as verifier for a salt.
DerivedVerifier(pw, salt) ==
    SubSeq(Pbkdf2(pw, salt, derived_key_size), key_size * 2 + 1, key_size * 2 + 2)

C19_DecryptInvertsEncrypt ==
    (aes.decrypted # None /\ aes.tried = aes.password) =>
        aes.decrypted[1] = Flatten(aes.plain)

\* The started entries that were encrypted and have been sealed.
SealedEncrypted ==
    {i \in 1..Len(history) :
        history[i].ok /\ history[i].encrypted /\ history[i].data_end >= 0}

\* The salt and password verifier on the sink after entry i's local header.
KeyMaterial(i) ==
    SubSeq(output, history[i].data_start + 1,
           history[i].data_start + salt_size + 2)

\* The ten bytes on the sink that end entry i's data.
AuthCodeOf(i) == SubSeq(output, history[i].data_end - 9, history[i].data_end)

\* C20: the authentication code of an encrypted entry covers the entry's
\* data: two sealed encrypted entries with the same salt and verifier whose
\* data differ carry different 10-byte authentication codes.
C20_AuthCodeCoversData ==
    \A i, j \in SealedEncrypted :
        (KeyMaterial(i) = KeyMaterial(j)
         /\ Flatten(history[i].chunks) # Flatten(history[j].chunks)) =>
            AuthCodeOf(i) # AuthCodeOf(j)

\* The little-endian value of the n bytes of the sink from offset off.
FieldAt(off, n) == from_le_bytes(SubSeq(output, off + 1, off + n))

\* Bit b of value v.
Bit(v, b) == (v \div (2 ^ b)) % 2

\* The local file header start_entry wrote for the i-th call is whole on the
\* sink.
HeaderOnSink(i) ==
    /\ history[i].local_header_offset >= 0
    /\ history[i].data_start <= Len(output)
    /\ SubSeq(output, history[i].local_header_offset + 1,
              history[i].local_header_offset + 4) = LocalFileHeaderSig

\* C21: every local file header written by start_entry has bit 3 of the
\* general-purpose flags set and zero CRC and size placeholders, has bit 0
\* set exactly when the entry is encrypted, has version-needed 20 when the
\* entry is not encrypted and 51 when it is, and for an encrypted entry
\* carries method 99 with the actual method in the AE-2 extra field.
C21_LocalHeaderFields ==
    \A i \in 1..Len(history) :
        HeaderOnSink(i) =>
            LET off == history[i].local_header_offset
            IN  /\ Bit(FieldAt(off + 6, 2), 3) = 1
                /\ FieldAt(off + 14, 4) = 0
                /\ FieldAt(off + 18, 4) = 0
                /\ FieldAt(off + 22, 4) = 0
                /\ Bit(FieldAt(off + 6, 2), 0) = 1 <=> history[i].encrypted
                /\ FieldAt(off + 4, 2) = IF history[i].encrypted THEN 51 ELSE 20
                /\ history[i].encrypted =>
                      /\ FieldAt(off + 8, 2) = 99
                      /\ FieldAt(history[i].data_start - 2, 2)
                            = to_zip_method(compression_method)

\* C22: for every entry of a finished archive, the central-directory record
\* carries the same general-purpose flags and the same compression method
\* as the entry's local file header.
C22_DirectoryMirrorsLocalHeader ==
    state = "finished" =>
        \A k \in 1..Len(entries) :
            LET at == CdRecordAt(output, trailer[1].central_dir_offset, k)
                off == entries[k].local_header_offset
            IN  /\ ReadLe(output, at + 8, 2) = FieldAt(off + 6, 2)
                /\ ReadLe(output, at + 10, 2) = FieldAt(off + 8, 2)

\* C23: when compress_entries_parallel returns its result list, position k
\* of the list holds the entry the caller supplied at position k, whatever
\* the order in which the tasks completed.
C23_ResultsInCallerOrder ==
    (par.returned # None /\ par.returned[1].ok) =>
        /\ Len(par.returned[1].entries) = Len(par.entries)
        /\ \A k \in 1..Len(par.entries) :
              /\ par.returned[1].entries[k].name = par.entries[k].name
              /\ par.returned[1].entries[k].uncompressed_size
                    = Len(par.entries[k].data[1])

\* The results of a call arrived in another order than the caller's, and
\* the call returned a list of two or more different entries.
C23_Witness ==
    /\ par.returned # None
    /\ par.returned[1].ok
    /\ Len(par.returned[1].entries) >= 2
    /\ par.returned[1].entries[1].name # par.returned[1].entries[2].name
    /\ par.arrival[1] # 0

\* The tasks that hold a permit.
PermitHolders ==
    {i \in 1..Len(par.entries) : par.task[i] \in {"compressing", "sending"}}

\* C24: at most max_concurrent tasks hold a permit.
C24_PermitsBoundWorkers ==
    par.called => Cardinality(PermitHolders) <= par.max_concurrent

\* Every permit is taken while another task waits for one.
C24_Witness ==
    /\ par.called
    /\ Cardinality(PermitHolders) = par.max_concurrent
    /\ \E i \in 1..Len(par.entries) : par.task[i] = "spawned"

\* The complete compressed outputs that are resident: in tasks, in the
\* channel and in the caller's results.
ResidentOutputs ==
    Cardinality({i \in 1..Len(par.entries) : par.held[i] # None})
    + Len(par.channel) + Len(par.results)

\* C25: at no time are more than max_concurrent + 1 complete compressed
\* outputs resident in the tasks, the channel and the collector together.
C25_ResidentOutputsBounded ==
    par.called => ResidentOutputs <= par.max_concurrent + 1

\* C26: a second call with the same entries and compression method returns
\* the same result as the first, whatever its max_concurrent and whatever
\* the schedules of the two calls.
C26_ResultIsDeterministic ==
    (par.returned # None /\ par.previous # None) =>
        par.returned[1] = par.previous[1].returned

\* Two calls with different max_concurrent have returned lists of two or
\* more entries.
C26_Witness ==
    /\ par.returned # None
    /\ par.previous # None
    /\ par.previous[1].max_concurrent # par.max_concurrent
    /\ par.returned[1].ok
    /\ Len(par.returned[1].entries) >= 2

\* C27 as stated: the position a cloud writer reports is the sum of the
\* lengths of the buffers its write operation accepted, that is of the
\* poll_write calls that returned Ok.
C27_PositionIsBytesAccepted ==
    cloud.provider # "none" => cloud.position = cloud.accepted

\* C27 amended: the position a cloud writer reports is the sum of the lengths
\* of all buffers given to its write operation, whatever was dispatched or
\* uploaded and whether or not the call returned Ok.
C27_PositionIsBytesSubmitted ==
    cloud.provider # "none" => cloud.position = cloud.submitted

\* A part was dispatched and uploaded and bytes are buffered behind it.
C27_Witness ==
    /\ cloud.provider # "none"
    /\ cloud.sent # <<>>
    /\ cloud.channel = <<>>
    /\ cloud.worker = "running"
    /\ cloud.buffer # <<>>
    /\ cloud.position = 3

\* C28: the Complete (Finalize) command is sent at most once, and no part
\* command is sent after it.
C28_CompleteSentOnce ==
    \A i, j \in 1..Len(cloud.sent) :
        (cloud.sent[i].cmd = "Complete" /\ i # j) =>
            /\ cloud.sent[j].cmd # "Complete"
            /\ j > i => cloud.sent[j].cmd # "UploadPart"

\* The part commands of an S3 writer whose send succeeded, in order.
PartsSent == SelectSeq(cloud.sent, LAMBDA c : c.cmd = "UploadPart")

\* The part commands sent before the Complete command.
PartsBeforeComplete ==
    LET at == CHOOSE i \in 1..Len(cloud.sent) : cloud.sent[i].cmd = "Complete"
    IN  SelectSeq(SubSeq(cloud.sent, 1, at), LAMBDA c : c.cmd = "UploadPart")

\* C29: the S3 writer numbers the parts it dispatches 1, 2, 3, ... in
\* dispatch order, the final part sent at shutdown is uploaded under the
\* number after the last part dispatched before it, and the parts submitted
\* to complete the upload are in ascending order of part number.
C29_PartNumbersSequential ==
    cloud.provider = "s3" =>
        /\ \A k \in 1..Len(PartsSent) : PartsSent[k].part_number = k
        /\ \A k \in 1..Len(cloud.parts) : cloud.parts[k].part_number = k
        /\ cloud.completed # None =>
              /\ cloud.completed[1] = cloud.parts
              /\ Len(cloud.parts) >= Len(PartsBeforeComplete)
              /\ Len(cloud.parts) <= Len(PartsBeforeComplete) + 1

\* An upload was completed with two dispatched parts and a final part.
C29_Witness ==
    /\ cloud.provider = "s3"
    /\ cloud.completed # None
    /\ Len(cloud.completed[1]) = 3
    /\ Len(PartsBeforeComplete) = 2

\* C30: a poll_write that begins after the upload worker has terminated with
\* an error returns an error.
C30_WriteFailsAfterWorkerDied ==
    [][(cloud.worker = "failed"
        /\ cloud'.calls = cloud.calls + 1
        /\ cloud'.last[1].op = "write") => ~cloud'.last[1].ok]_vars

\* ------------------------------------------------------- size hint (C34)
\* The size hints start_entry_with_hint is given: none, and the values on
\* both sides of every decimal and every binary boundary.
SizeHints ==
    {None} \cup {Some(n) : n \in {0, 9999, 10000, 10239, 10240,
                                   99999, 100000, 102399, 102400,
                                   999999, 1000000, 1048575, 1048576,
                                   9999999, 10000000, 10485759, 10485760}}

\* The writer that is only given entries, each with a size hint.
HintNext ==
    \/ \E name \in Names : \E size_hint \in SizeHints : \E salt \in Salts :
          StartEntry(name, size_hint, salt)
    \/ \E name \in Names : AsyncStartEntry(name)

HintSpec == Init /\ [][HintNext]_vars

\* The table of the adaptive buffering: (initial capacity, flush threshold)
\* for a size hint, with the boundaries at 10 KiB, 100 KiB, 1 MiB and 10 MiB.
SizeHintTable(size_hint) ==
    IF size_hint # None /\ size_hint[1] < 10 * 1024 THEN <<8 * 1024, 256 * 1024>>
    ELSE IF size_hint # None /\ size_hint[1] < 100 * 1024 THEN <<32 * 1024, 512 * 1024>>
    ELSE IF size_hint # None /\ size_hint[1] < 1024 * 1024 THEN <<128 * 1024, 2 * 1024 * 1024>>
    ELSE IF size_hint # None /\ size_hint[1] < 10 * 1024 * 1024 THEN <<256 * 1024, 4 * 1024 * 1024>>
    ELSE <<512 * 1024, 8 * 1024 * 1024>>

\* The staging buffer of the open entry has the capacity and the threshold of
\* the table's row for size_hint.
BufferFollowsTable(entry, size_hint) ==
    /\ entry.initial_capacity = SizeHintTable(size_hint)[1]
    /\ entry.flush_threshold = Scaled(SizeHintTable(size_hint)[2])

\* C34: the staging buffer of an entry gets its initial capacity and its flush
\* threshold from the size hint given to start_entry by the table (< 10 KiB:
\* 8 KiB and 256 KiB; < 100 KiB: 32 KiB and 512 KiB; < 1 MiB: 128 KiB and
\* 2 MiB; < 10 MiB: 256 KiB and 4 MiB; larger or absent: 512 KiB and 8 MiB),
\* for every hint, those next to the boundaries included, and in the async
\* writer, whose start_entry takes no hint, by the row of the absent hint.
C34_BufferFollowsHintTable ==
    [][/\ \A name \in Names : \A size_hint \in SizeHints : \A salt \in Salts :
             (StartEntry(name, size_hint, salt) /\ current_entry' # None) =>
                 BufferFollowsTable(current_entry'[1], size_hint)
       /\ \A name \in Names :
             (AsyncStartEntry(name) /\ current_entry' # None) =>
                 BufferFollowsTable(current_entry'[1], None)]_vars

\* ------------------------------------------------- staging buffer (C35)
\* C35: after every write_data that returns Ok the staging buffer of the open
\* entry holds fewer than flush_threshold bytes; a write_data that reaches the
\* threshold hands the whole buffer to the sink and leaves it empty, one that
\* does not hands nothing over; and every byte handed to the sink is added to
\* the compressed counter exactly once, by write_data or by the finalization
\* of the entry, so that the counter of an open entry is the number of its
\* data bytes on the sink.
C35_DrainedBytesCountedOnce ==
    [][/\ (current_entry' # None /\ last_result' = Ok("write_data")) =>
             Len(current_entry'[1].buffer) < current_entry'[1].flush_threshold
       /\ current_entry' # None =>
             current_entry'[1].compressed_count
                 = position' - (history'[Len(history')].data_start
                                + Len(AesPreamble(current_entry'[1].encryptor)))
       /\ (n_write' = n_write + 1 /\ current_entry # None) =>
             LET drained == SubSeq(output', Len(output) + 1, Len(output'))
                 cur == current_entry[1]
                 new == current_entry'[1]
             IN  /\ current_entry' # None
                 /\ SubSeq(output', 1, Len(output)) = output
                 /\ new.compressed_count = cur.compressed_count + Len(drained)
                 /\ IF drained = <<>>
                    THEN SubSeq(new.buffer, 1, Len(cur.buffer)) = cur.buffer
                    ELSE /\ new.buffer = <<>>
                         /\ SubSeq(drained, 1, Len(cur.buffer)) = cur.buffer
                         /\ Len(drained) >= cur.flush_threshold
       /\ (Len(entries') = Len(entries) + 1 /\ current_entry # None) =>
             LET cur == current_entry[1]
                 data_end == history'[Len(history)].data_end
             IN  /\ SubSeq(output', Len(output) + 1, Len(output) + Len(cur.buffer))
                       = cur.buffer
                 /\ entries'[Len(entries')].compressed_size
                       = cur.compressed_count + (data_end - position)]_vars

\* write_data returned Ok with bytes left in the buffer of an entry that had
\* drained its buffer before.
C35_Witness ==
    /\ current_entry # None
    /\ last_result = Ok("write_data")
    /\ current_entry[1].compressed_count > 0
    /\ current_entry[1].buffer # <<>>

\* ------------------------------------------------- damaged archives (C33)
\* The signatures a reader looks for.
Signatures ==
    {EocdSig, Zip64LocatorSig, Zip64EocdSig, CentralDirectorySig, LocalFileHeaderSig}

\* The archive a finished blocking writer left behind loses the first byte of
\* the signature at offset at, before a reader opens it.
Damage(at) ==
    /\ state = "finished"
    /\ kind = "sync"
    /\ ReadAt(output, at, 4) \in Signatures
    /\ output' = [output EXCEPT ![at + 1] = 0]
    /\ state' = "damaged"
    /\ UNCHANGED <<par, cloud, aes, sink_failed, kind, sink_kind, compression_method,
                   password, position, entries, current_entry, last_result, history,
                   seeks, trailer, n_write>>

DamageInit ==
    /\ Init
    /\ kind = "sync"
    /\ compression_method = "Deflate"

DamageNext ==
    \/ \E file \in Files : StartEntry(file.name, file.size_hint, <<>>)
    \/ \E data \in Chunks : WriteData(data)
    \/ Finish
    \/ \E at \in 0..(Len(output) - 4) : Damage(at)

DamageSpec == DamageInit /\ [][DamageNext]_vars

\* What read_central_directory takes from the end of central directory
\* record, or from the ZIP64 record when a placeholder sends it there: the
\* number of entries the archive announces and where its directory begins.
Announced(bytes) ==
    LET eocd_offset == find_eocd(bytes).offset
        total_entries_16 == ReadLe(bytes, eocd_offset + 10, 2)
        cd_size_32 == ReadLe(bytes, eocd_offset + 12, 4)
        cd_offset_32 == ReadLe(bytes, eocd_offset + 16, 4)
        marked == \/ total_entries_16 = U16_MAX
                  \/ cd_size_32 = U32_MAX
                  \/ cd_offset_32 = U32_MAX
        zip64 == read_zip64_eocd(bytes, eocd_offset)
    IN  [marked |-> marked,
         zip64_ok |-> zip64.ok,
         total_entries |-> IF marked THEN zip64.total_entries ELSE total_entries_16,
         cd_offset |-> IF marked THEN zip64.cd_offset ELSE cd_offset_32]

\* The archive has an end of central directory signature in the window the
\* reader scans.
HasEocd == SigOffsets(output, EocdSig, SearchStart(Len(output))) # {}

\* The reader needs the ZIP64 structures and one of their signatures is gone.
Zip64SignatureMissing ==
    /\ HasEocd
    /\ Announced(output).marked
    /\ \/ SigOffsets(output, Zip64LocatorSig, 0) = {}
       \/ SigOffsets(output, Zip64EocdSig, 0) = {}

\* Offsets of the central directory records of the archive as the writer
\* laid them out, in order.
DirectoryRecordOffsets ==
    [k \in 1..Len(entries) |->
        trailer[1].central_dir_offset
        + Len(CentralDirectory(SubSeq(entries, 1, k - 1)))]

\* One of the announced central directory records does not begin with the
\* central directory signature.
DirectoryRecordDamaged ==
    /\ HasEocd
    /\ ~Zip64SignatureMissing
    /\ \E k \in 1..Len(entries) :
          ReadAt(output, DirectoryRecordOffsets[k], 4) # CentralDirectorySig

\* open() failed with InvalidFormat.
OpenFailsInvalidFormat == ~Opened.ok /\ Opened.err = "InvalidFormat"

\* C33: open fails with InvalidFormat when the archive has no end of central
\* directory signature, when a ZIP64 locator or record signature it needs is
\* missing, or when one of the announced central directory records does not
\* begin with the central directory signature; read_entry fails with
\* InvalidFormat when the local header signature of the entry is wrong; and
\* open never returns Ok with fewer entries than the archive announces.
C33_BadSignaturesAreInvalidFormat ==
    state \in {"finished", "damaged"} =>
        /\ ~HasEocd => OpenFailsInvalidFormat
        /\ Zip64SignatureMissing => OpenFailsInvalidFormat
        /\ DirectoryRecordDamaged => OpenFailsInvalidFormat
        /\ Opened.ok =>
              /\ Len(Opened.entries) >= Announced(output).total_entries
              /\ \A i \in 1..Len(Opened.entries) :
                    ReadAt(output, Opened.entries[i].offset, 4) # LocalFileHeaderSig =>
                        /\ ~ReadBack(Opened.entries[i]).ok
                        /\ ReadBack(Opened.entries[i]).err = "InvalidFormat"

\* ------------------------------------------- cloud writers (C31 .. C39)
\* The part bodies queued in the command channel or held by the worker: the
\* S3 worker holds a body only while it uploads it, the GCS worker keeps
\* every body it has received until it finalizes.
HeldPartBodies ==
    IF cloud.provider = "gcs" /\ cloud.worker = "running"
    THEN Len(PartsSent)
    ELSE Len(SelectSeq(cloud.channel, LAMBDA c : c.cmd = "UploadPart"))

\* C31: the bytes a cloud writer and its worker hold are bounded whatever the
\* size of the archive: besides one part buffer of at most part_size bytes,
\* the part bodies queued or held by the worker never exceed a bound that is
\* fixed when the writer is built, so they stay fewer than the writes the
\* caller makes.
C31_HeldPartsBounded ==
    cloud.provider # "none" =>
        /\ Len(cloud.buffer) <= PartSize
        /\ HeldPartBodies < MaxCloudCalls

\* Index in sent of the Complete command.
CompleteAt == CHOOSE i \in 1..Len(cloud.sent) : cloud.sent[i].cmd = "Complete"

\* The bodies the writer dispatched: those of the parts sent before Complete,
\* then the final part if Complete carried one.
DispatchedBodies ==
    [k \in 1..Len(PartsBeforeComplete) |-> PartsBeforeComplete[k].data[1]]
    \o (IF cloud.sent[CompleteAt].data # None
        THEN <<cloud.sent[CompleteAt].data[1]>> ELSE <<>>)

\* shutdown has returned Ok on an S3 writer.
S3ShutdownOk ==
    /\ cloud.provider = "s3"
    /\ cloud.last # None
    /\ cloud.last[1].op = "shutdown"
    /\ cloud.last[1].ok

\* C32: when shutdown (the last step of the async writer's finish) returns Ok
\* on an S3 writer that was given at least one byte, the store has answered
\* exactly these requests, in this order: one create_multipart_upload, one
\* upload_part for every dispatched part with numbers 1, 2, ... and the
\* part's body, the final part last, and one complete_multipart_upload; an
\* archive smaller than part_size is one create, one upload_part and one
\* complete.
C32_UploadOpenedPartsSentCompleted ==
    (S3ShutdownOk /\ DispatchedBodies # <<>>) =>
        /\ cloud.remote =
              <<[req |-> "create_multipart_upload", part_number |-> 0, body |-> <<>>]>>
              \o [k \in 1..Len(DispatchedBodies) |->
                     [req |-> "upload_part", part_number |-> k,
                      body |-> DispatchedBodies[k]]]
              \o <<[req |-> "complete_multipart_upload", part_number |-> 0,
                    body |-> <<>>]>>
        /\ cloud.completed # None
        /\ cloud.worker = "done"

\* An upload of a dispatched part and a final part was completed and
\* shutdown returned Ok.
C32_Witness ==
    /\ S3ShutdownOk
    /\ Len(PartsBeforeComplete) = 1
    /\ Len(DispatchedBodies) = 2

\* C36: once a request of the S3 upload has failed, no shutdown returns Ok,
\* whether the request failed before or after the Complete command was sent.
C36_RemoteFailureFailsShutdown ==
    (cloud.provider = "s3" /\ cloud.worker = "failed" /\ cloud.last # None
     /\ cloud.last[1].op = "shutdown") => ~cloud.last[1].ok

\* A request failed after the Complete command had been sent, and the
\* shutdown that followed reported the failure.
C36_Witness ==
    /\ cloud.provider = "s3"
    /\ cloud.worker = "failed"
    /\ \E i \in 1..Len(cloud.sent) : cloud.sent[i].cmd = "Complete"
    /\ cloud.last # None
    /\ cloud.last[1].op = "shutdown"
    /\ cloud.last[1].err = "UploadFailed"

\* The upload_part requests the store answered with success, in request order.
UploadedParts == SelectSeq(cloud.remote, LAMBDA r : r.req = "upload_part")

\* C38: after shutdown of the S3 writer has returned Ok, the bodies of the
\* uploaded parts, taken in ascending order of part number, concatenate to
\* the bytes that were written to the writer.
C38_PartsConcatenateToWritten ==
    S3ShutdownOk =>
        /\ \A k \in 1..Len(UploadedParts) : UploadedParts[k].part_number = k
        /\ Flatten([k \in 1..Len(UploadedParts) |-> UploadedParts[k].body])
              = cloud.written

\* C39: every part an S3 writer dispatches from poll_write has a body of at
\* least part_size bytes; the final part, sent with Complete, is not empty;
\* and the buffer holds fewer than part_size bytes after each call.
C39_PartsAtLeastPartSize ==
    cloud.provider = "s3" =>
        /\ \A k \in 1..Len(PartsSent) : Len(PartsSent[k].data[1]) >= PartSize
        /\ \A i \in 1..Len(cloud.sent) :
              (cloud.sent[i].cmd = "Complete" /\ cloud.sent[i].data # None) =>
                  cloud.sent[i].data[1] # <<>>
        /\ Len(cloud.buffer) < PartSize

\* A part longer than part_size was dispatched, and a final part shorter than
\* part_size was sent at shutdown.
C39_Witness ==
    /\ cloud.provider = "s3"
    /\ \E k \in 1..Len(PartsSent) : Len(PartsSent[k].data[1]) > PartSize
    /\ \E i \in 1..Len(cloud.sent) :
          /\ cloud.sent[i].cmd = "Complete"
          /\ cloud.sent[i].data # None
          /\ Len(cloud.sent[i].data[1]) < PartSize

\* ------------------------------------------------ parallel pipeline (C37)
\* C37: for every entry list and every max_concurrent >= 1, under fair
\* scheduling a call of the parallel pipeline returns, with tasks that hold a
\* permit while they send into the channel of capacity max_concurrent, the
\* caller draining the channel and joining the tasks, also when tasks fail;
\* and if a task failed the call returns an error and no entries.
C37_ParallelCallReturns ==
    /\ (par.called /\ par.returned = None) ~> (par.returned # None)
    /\ [](par.returned # None /\ ParFailed # {} =>
              /\ ~par.returned[1].ok
              /\ par.returned[1].entries = <<>>)

\* A call with three entries and one permit has returned an error after one
\* task failed and the others had sent their results.
C37_Witness ==
    /\ par.returned # None
    /\ ~par.returned[1].ok
    /\ Len(par.entries) = 3
    /\ par.max_concurrent = 1
    /\ Cardinality(ParFailed) = 1
    /\ par.arrival # <<>>

====
